---- MODULE Spec2Model ----
(***************************************************************************)
(* Verification model of the vx220-dashboard ingestion core:               *)
(*   - esp32.rs     : serial framing loop and TLV frame decoder            *)
(*   - main.rs      : task wiring, BLE callbacks, serial error path        *)
(*   - telemetry.rs : the lock-guarded TelemetryState                      *)
(*   - racebox/     : BLE listener (ble.rs) and packet parser (parser.rs)  *)
(*   - ui/render.rs : the render pass (non-blocking reader)                *)
(* Option<T> is modelled as a sequence: <<>> is None, <<v>> is Some(v).    *)
(***************************************************************************)
EXTENDS Integers, Sequences, FiniteSets, TLC

VARIABLES
    limits,            \* what the environment of this run may do (fixed at Init)
    overflow_checks,   \* build profile: TRUE = arithmetic overflow panics (debug)
    wire,              \* bytes the device will still deliver on the UART
    esp_pc,            \* position of the serial listener task
    buffer,            \* start_listener: `buffer` (every byte ever read)
    frame_buffer,      \* start_listener: `frame_buffer`
    last_values,       \* connection.last_values
    elapsed_ms,        \* last_successful_update.elapsed(), saturating at the window
    io_errors,         \* number of I/O errors the device has produced so far
    calls,             \* history: every call of parse_frame (frame, position, result)
    clock,             \* history: the time, and when the listener started,
                       \*   last decoded a frame and last dispatched a republish
    tasks,             \* tokio::spawn'ed store writers, in spawn order
    lock,              \* holder of the TelemetryState mutex (NoHolder when free)
    store,             \* the TelemetryState behind the mutex
    ble_pc,            \* position of the BLE listener task
    scan_count,        \* start_ble_listener: `scan_count`
    connected,         \* start_ble_listener: `connected`
    periph,            \* peripherals of the current scan cycle still to visit
    sleep_secs,        \* duration of the most recent scan sleep
    ble_failures,      \* number of BLE stage failures so far
    notified,          \* number of notifications delivered so far
    inbox,             \* history: what notifications.next() returned, in order
    render_pc,         \* position of the render pass
    shown,             \* what the current render pass has read so far
    cmd_pc,            \* position of the command handler
    cmd_line,          \* what reader.lines() yields on the connection handled
    responses,         \* per connection handled: its lines and the replies
    call_arg,          \* argument of a direct call of a pure function (None: no call)
    call_ret           \* what that call returned (None: not yet called)

SerialVars == <<overflow_checks, wire, esp_pc, buffer, frame_buffer,
                last_values, elapsed_ms, io_errors, calls, clock>>

BleVars == <<ble_pc, scan_count, connected, periph, sleep_secs, ble_failures,
             notified, inbox>>

UiVars == <<render_pc, shown, cmd_pc, cmd_line, responses>>

CallVars == <<call_arg, call_ret>>

NonSerialVars == <<limits, CallVars, BleVars, UiVars>>

vars == <<SerialVars, tasks, lock, store, NonSerialVars>>

----------------------------------------------------------------------------
(* Program constants *)

START_BYTE == 170
END_BYTE == 85
MIN_FRAME_LEN == 8
VALUE_RETENTION_MS == 500
RECONNECT_SLEEP_MS == 1000
CRC_POLY == 4129
CRC_INIT == 0

(* Bounds of the model *)

MaxErrors == 1
MaxRetains == 1
TickMs == 250

----------------------------------------------------------------------------
(* Byte and word arithmetic *)

None == <<>>
Some(v) == <<v>>

Min(a, b) == IF a < b THEN a ELSE b

(* The bit of a ^ b with place value p. *)
XorBit(a, b, p) == ((((a \div p) % 2) + ((b \div p) % 2)) % 2) * p

(* a ^ b on u16 operands, bit by bit. *)
Xor(a, b) ==
    (((XorBit(a, b, 1) + XorBit(a, b, 2)) + (XorBit(a, b, 4) + XorBit(a, b, 8)))
      + ((XorBit(a, b, 16) + XorBit(a, b, 32))
          + (XorBit(a, b, 64) + XorBit(a, b, 128))))
    + (((XorBit(a, b, 256) + XorBit(a, b, 512))
          + (XorBit(a, b, 1024) + XorBit(a, b, 2048)))
      + ((XorBit(a, b, 4096) + XorBit(a, b, 8192))
          + (XorBit(a, b, 16384) + XorBit(a, b, 32768))))

Bit(b, i) == (b \div (2 ^ i)) % 2 = 1

u16_from_be_bytes(hi, lo) == hi * 256 + lo

i16_from_be_bytes(hi, lo) ==
    LET u == hi * 256 + lo IN IF u >= 32768 THEN u - 65536 ELSE u

SubSeqFrom(s, i) == SubSeq(s, i, Len(s))

----------------------------------------------------------------------------
(* telemetry.rs: StatusFlags, ESP32Data, TelemetryState *)

(* from_byte with the masks of the two turn signals exchanged. *)
StatusFlags_from_byte_TurnsExchanged(byte) ==
    [mil            |-> Bit(byte, 0),
     abs_warning    |-> Bit(byte, 1),
     airbag_warning |-> Bit(byte, 2),
     left_turn      |-> Bit(byte, 4),
     right_turn     |-> Bit(byte, 3),
     high_beam      |-> Bit(byte, 5),
     parking_brake  |-> Bit(byte, 6),
     reserved       |-> Bit(byte, 7)]

StatusFlags_from_byte(byte) ==
    [mil            |-> Bit(byte, 0),
     abs_warning    |-> Bit(byte, 1),
     airbag_warning |-> Bit(byte, 2),
     left_turn      |-> Bit(byte, 3),
     right_turn     |-> Bit(byte, 4),
     high_beam      |-> Bit(byte, 5),
     parking_brake  |-> Bit(byte, 6),
     reserved       |-> Bit(byte, 7)]

(* telemetry.rs 43-54: each `byte |= mask` sets a bit that is still clear. *)
StatusFlags_to_byte(flags) ==
    (IF flags.mil THEN 1 ELSE 0)
      + (IF flags.abs_warning THEN 2 ELSE 0)
      + (IF flags.airbag_warning THEN 4 ELSE 0)
      + (IF flags.left_turn THEN 8 ELSE 0)
      + (IF flags.right_turn THEN 16 ELSE 0)
      + (IF flags.high_beam THEN 32 ELSE 0)
      + (IF flags.parking_brake THEN 64 ELSE 0)
      + (IF flags.reserved THEN 128 ELSE 0)

ESP32Data_default ==
    [fuel_level        |-> None,
     oil_pressure      |-> None,
     boost_pressure    |-> None,
     rpm               |-> None,
     speed             |-> None,
     status_flags      |-> None,
     steering_angle    |-> None,
     brake_pressure    |-> None,
     throttle_position |-> None,
     gear_position     |-> None,
     tyre_pressures    |-> <<None, None, None, None>>,
     tyre_temps        |-> <<None, None, None, None>>]

TelemetryState_new ==
    [latest_racebox_data |-> None,
     latest_esp32_data   |-> ESP32Data_default,
     racebox_error       |-> None,
     esp32_error         |-> None,
     drive_mode          |-> "Road",
     color_scheme        |-> "Light"]

----------------------------------------------------------------------------
(* esp32.rs: parse_frame.  Frames are 1-indexed here: frame[i] of the      *)
(* source is At(frame, i).                                                 *)

At(frame, i) == frame[i + 1]

CrcShift(crc) ==
    IF crc >= 32768
        THEN Xor((crc * 2) % 65536, CRC_POLY)
        ELSE (crc * 2) % 65536

CrcByte(crc, b) ==
    CrcShift(CrcShift(CrcShift(CrcShift(
    CrcShift(CrcShift(CrcShift(CrcShift(Xor(crc, b * 256)))))))))

(* The `for &b in data` loop; crc is a u16 after every byte. *)
RECURSIVE CrcFold(_, _, _)
CrcFold(crc, bytes, i) ==
    IF i > Len(bytes) THEN crc
    ELSE LET next == CrcByte(crc, bytes[i])
         IN  IF next < 65536
                THEN CrcFold(next, bytes, i + 1)
                ELSE CrcFold(next % 65536, bytes, i + 1)

(* The checksum started from 0xFFFF (CRC-16/CCITT-FALSE) instead of 0. *)
Crc16_InitOnes(bytes) == CrcFold(65535, bytes, 1)

Crc16(bytes) == CrcFold(CRC_INIT, bytes, 1)

(* ApplyTlv reading the two value bytes low byte first. *)
ApplyTlv_LittleEndian(data, frame, id, pos) ==
    LET w  == u16_from_be_bytes(At(frame, pos + 1), At(frame, pos))
        sw == i16_from_be_bytes(At(frame, pos + 1), At(frame, pos))
    IN  CASE id = 1  -> [data EXCEPT !.fuel_level = Some(w)]
          [] id = 2  -> [data EXCEPT !.oil_pressure = Some(w)]
          [] id = 3  -> [data EXCEPT !.boost_pressure = Some(w)]
          [] id = 4  -> [data EXCEPT !.rpm = Some(w)]
          [] id = 5  -> [data EXCEPT !.speed = Some(w)]
          [] id = 6  -> [data EXCEPT !.status_flags =
                              Some(StatusFlags_from_byte(At(frame, pos)))]
          [] id = 7  -> [data EXCEPT !.steering_angle = Some(sw)]
          [] id = 8  -> [data EXCEPT !.brake_pressure = Some(w)]
          [] id = 9  -> [data EXCEPT !.throttle_position = Some(At(frame, pos))]
          [] id = 10 -> [data EXCEPT !.gear_position = Some(At(frame, pos))]
          [] id >= 11 /\ id <= 14 ->
                 [data EXCEPT !.tyre_pressures[id - 11 + 1] = Some(w)]
          [] id >= 15 /\ id <= 18 ->
                 [data EXCEPT !.tyre_temps[id - 15 + 1] = Some(sw)]
          [] OTHER -> data

(* One TLV entry: the match on `id` of the walk, value read at `pos`. *)
ApplyTlv(data, frame, id, pos) ==
    LET w  == u16_from_be_bytes(At(frame, pos), At(frame, pos + 1))
        sw == i16_from_be_bytes(At(frame, pos), At(frame, pos + 1))
    IN  CASE id = 1  -> [data EXCEPT !.fuel_level = Some(w)]
          [] id = 2  -> [data EXCEPT !.oil_pressure = Some(w)]
          [] id = 3  -> [data EXCEPT !.boost_pressure = Some(w)]
          [] id = 4  -> [data EXCEPT !.rpm = Some(w)]
          [] id = 5  -> [data EXCEPT !.speed = Some(w)]
          [] id = 6  -> [data EXCEPT !.status_flags =
                              Some(StatusFlags_from_byte(At(frame, pos)))]
          [] id = 7  -> [data EXCEPT !.steering_angle = Some(sw)]
          [] id = 8  -> [data EXCEPT !.brake_pressure = Some(w)]
          [] id = 9  -> [data EXCEPT !.throttle_position = Some(At(frame, pos))]
          [] id = 10 -> [data EXCEPT !.gear_position = Some(At(frame, pos))]
          [] id >= 11 /\ id <= 14 ->
                 [data EXCEPT !.tyre_pressures[id - 11 + 1] = Some(w)]
          [] id >= 15 /\ id <= 18 ->
                 [data EXCEPT !.tyre_temps[id - 15 + 1] = Some(sw)]
          [] OTHER -> data

(* The walk stepping over the two header bytes of an unknown entry only,   *)
(* so that its value bytes are read as further entries.                    *)
RECURSIVE TlvWalk_IntoUnknownValue(_, _, _, _)
TlvWalk_IntoUnknownValue(data, frame, pos, crc_offset) ==
    IF pos < crc_offset
        THEN LET id  == At(frame, pos)
                 len == IF id \in 1 .. 18 THEN At(frame, pos + 1) ELSE 0
             IN  TlvWalk_IntoUnknownValue(ApplyTlv(data, frame, id, pos + 2),
                                          frame, pos + 2 + len, crc_offset)
        ELSE data

(* The `while pos < crc_offset` walk of the TLV region. *)
RECURSIVE TlvWalk(_, _, _, _)
TlvWalk(data, frame, pos, crc_offset) ==
    IF pos < crc_offset
        THEN LET id  == At(frame, pos)
                 len == At(frame, pos + 1)
             IN  TlvWalk(ApplyTlv(data, frame, id, pos + 2), frame,
                         pos + 2 + len, crc_offset)
        ELSE data

Ok(data) == [kind |-> "Ok", data |-> data, err |-> ""]
Err(msg) == [kind |-> "Err", data |-> ESP32Data_default, err |-> msg]
Panic(msg) == [kind |-> "Panic", data |-> ESP32Data_default, err |-> msg]

(* `3 + (len - 1)` on usize: with len = 0 the subtraction overflows; a     *)
(* build with overflow checks panics, one without wraps to 2.              *)
TlvEnd(len) == IF len = 0 THEN 2 ELSE 3 + (len - 1)

parse_frame_checked(frame) ==
    LET len        == At(frame, 1)
        tlv_end    == TlvEnd(len)
        crc_offset == tlv_end
        crc_recv   == u16_from_be_bytes(At(frame, crc_offset),
                                        At(frame, crc_offset + 1))
        crc_calc   == Crc16(SubSeq(frame, 3, crc_offset))
    IN  IF Len(frame) < tlv_end + 3 THEN Err("Frame length mismatch")
        ELSE IF crc_recv # crc_calc THEN Err("CRC mismatch")
        ELSE IF At(frame, crc_offset + 2) # END_BYTE THEN Err("Missing EOF byte")
        ELSE Ok(TlvWalk(ESP32Data_default, frame, 3, crc_offset))

parse_frame(frame, checks) ==
    IF Len(frame) < MIN_FRAME_LEN THEN Err("Frame too short")
    ELSE IF At(frame, 1) = 0 /\ checks THEN Panic("attempt to subtract with overflow")
    ELSE parse_frame_checked(frame)

----------------------------------------------------------------------------
(* The device side of the UART: the frame layout                           *)
(* [0xAA][LEN][VER][TLV...][CRC16 big-endian][0x55], LEN = 1 + |TLV|.      *)

EncodeFrame(ver, tlv) ==
    LET crc == Crc16(<<ver>> \o tlv)
    IN  <<START_BYTE, Len(tlv) + 1, ver>> \o tlv
            \o <<crc \div 256, crc % 256, END_BYTE>>

(* TLV regions the device sends in the model. *)
TlvRpm      == <<4, 2, 11, 184>>             \* rpm = 3000
TlvThrottle == <<9, 1, 50>>                  \* throttle = 50
TlvStatus   == <<6, 1, 129, 10, 1, 3>>       \* status flags, gear = 3
TlvRpm170   == <<4, 2, 0, 170>>              \* rpm = 170: value byte 0xAA
TlvFuel85   == <<9, 1, 50, 1, 2, 0, 85>>     \* fuel = 85: value byte 0x55
TlvUnknown  == <<60, 3, 1, 9, 0>>            \* unknown tag 0x3C, 3 value bytes

FrameRpm      == EncodeFrame(1, TlvRpm)
FrameThrottle == EncodeFrame(1, TlvThrottle)
FrameStatus   == EncodeFrame(1, TlvStatus)
FrameRpm170   == EncodeFrame(1, TlvRpm170)
FrameFuel85   == EncodeFrame(1, TlvFuel85)
FrameUnknown  == EncodeFrame(101, TlvUnknown)

(* Frames whose TLV region holds the byte 0x55 around the length at which  *)
(* the listener starts to take it for the end sentinel: as the 7th byte    *)
(* (the low byte of fuel = 85) and as the 8th (an unknown tag 0x55 of      *)
(* length 0 after rpm = 3000).                                             *)
TlvFuel85Early == <<1, 2, 0, 85>>
TlvTag85       == <<4, 2, 11, 184, 85, 0>>

FrameFuel85Early == EncodeFrame(1, TlvFuel85Early)
FrameTag85       == EncodeFrame(1, TlvTag85)

(* `frame` with the byte at 0-based index i replaced by v. *)
Corrupt(frame, i, v) == [frame EXCEPT ![i + 1] = v]

CorruptValues == {0, 1, 85, 170, 255}

(* Every single-byte corruption of the CRC-covered region (VER and TLV). *)
Corruptions(frame) ==
    { Corrupt(frame, i, v) :
        i \in 2 .. (Len(frame) - 4), v \in CorruptValues } \ {frame}

CleanFrames == {FrameRpm, FrameThrottle, FrameStatus}

SerialStreams ==
    CleanFrames
      \cup {FrameRpm170, FrameFuel85, FrameUnknown}
      \cup {FrameFuel85Early, FrameTag85, FrameRpm \o FrameFuel85}
      \cup { f \o g : f \in {FrameRpm, FrameThrottle}, g \in CleanFrames }
      \cup { <<7, END_BYTE>> \o f : f \in CleanFrames }
      \cup { SubSeq(f, 1, 4) \o g : f \in {FrameRpm}, g \in CleanFrames }
      \cup Corruptions(FrameThrottle)
      \cup Corruptions(FrameUnknown)

----------------------------------------------------------------------------
(* The TelemetryState mutex and the spawned store writers *)

NoHolder == <<"none", 0>>
TaskHolder(i) == <<"task", i>>

NewTask(kind, data) == [kind |-> kind, data |-> data, pc |-> "spawned"]

IsRetain(t) == t.kind = "esp32_retain"

Retains(ts) == Cardinality({i \in 1 .. Len(ts) : IsRetain(ts[i])})

(* RetentionCheck without line 96: the timer is not restarted, so the       *)
(* sample is republished again at the end of the next iteration.           *)
RetentionCheck_NoRestart(el, lv, ts) ==
    IF el >= VALUE_RETENTION_MS
        THEN [tasks |-> Append(ts, NewTask("esp32_retain", lv)), elapsed |-> el]
        ELSE [tasks |-> ts, elapsed |-> el]

(* esp32.rs 86-97: the retention check that ends every loop iteration.     *)
(* Yields the task list and the timer after the check.                     *)
RetentionCheck(el, lv, ts) ==
    IF el >= VALUE_RETENTION_MS
        THEN [tasks |-> Append(ts, NewTask("esp32_retain", lv)), elapsed |-> 0]
        ELSE [tasks |-> ts, elapsed |-> el]

(* OnByte with the restart on 0xAA lost: the start byte is appended to an  *)
(* open frame instead of replacing it.                                     *)
OnByte_NoRestart(b, fb, lv, el, ts, cs, pos, checks) ==
    [frame_buffer |-> Append(fb, b), last_values |-> lv, elapsed |-> el,
     tasks |-> ts, calls |-> cs, panicked |-> FALSE]

(* OnByte with the minimum length lost from the test that closes a frame:  *)
(* every 0x55 in an open frame ends it.                                    *)
OnByte_ClosesOnAnyEnd(b, fb, lv, el, ts, cs, pos, checks) ==
    LET same == [frame_buffer |-> fb, last_values |-> lv, elapsed |-> el,
                 tasks |-> ts, calls |-> cs, panicked |-> FALSE]
        fb2  == Append(fb, b)
        r    == parse_frame(fb2, checks)
        c2   == Append(cs, [frame |-> fb2, at |-> pos, result |-> r])
    IN  IF b = START_BYTE THEN [same EXCEPT !.frame_buffer = <<b>>]
        ELSE IF fb = <<>> THEN same
        ELSE IF b # END_BYTE THEN [same EXCEPT !.frame_buffer = fb2]
        ELSE IF r.kind = "Ok"
            THEN [same EXCEPT !.frame_buffer = <<>>,
                              !.last_values = r.data,
                              !.elapsed = 0,
                              !.tasks = Append(ts, NewTask("esp32_write", r.data)),
                              !.calls = c2]
            ELSE [same EXCEPT !.frame_buffer = <<>>, !.calls = c2]

(* OnByte with a rejected frame treated as a decode of nothing: the        *)
(* last-good sample is cleared and the retention timer restarted.          *)
OnByte_RejectClearsSample(b, fb, lv, el, ts, cs, pos, checks) ==
    LET same == [frame_buffer |-> fb, last_values |-> lv, elapsed |-> el,
                 tasks |-> ts, calls |-> cs, panicked |-> FALSE]
        fb2  == Append(fb, b)
        r    == parse_frame(fb2, checks)
        c2   == Append(cs, [frame |-> fb2, at |-> pos, result |-> r])
    IN  IF b = START_BYTE THEN [same EXCEPT !.frame_buffer = <<b>>]
        ELSE IF fb = <<>> THEN same
        ELSE IF ~(b = END_BYTE /\ Len(fb2) >= MIN_FRAME_LEN)
            THEN [same EXCEPT !.frame_buffer = fb2]
        ELSE IF r.kind = "Ok"
            THEN [same EXCEPT !.frame_buffer = <<>>,
                              !.last_values = r.data,
                              !.elapsed = 0,
                              !.tasks = Append(ts, NewTask("esp32_write", r.data)),
                              !.calls = c2]
            ELSE [same EXCEPT !.frame_buffer = <<>>,
                              !.last_values = ESP32Data_default,
                              !.elapsed = 0,
                              !.calls = c2]

(* esp32.rs 46-76: the Ok(_) arm of the read, for byte b.  Yields the new  *)
(* frame buffer, last-good sample, timer, task list and call history.      *)
OnByte(b, fb, lv, el, ts, cs, pos, checks) ==
    LET same == [frame_buffer |-> fb, last_values |-> lv, elapsed |-> el,
                 tasks |-> ts, calls |-> cs, panicked |-> FALSE]
    IN  IF b = START_BYTE
            THEN [same EXCEPT !.frame_buffer = <<b>>]
        ELSE IF fb # <<>>
            THEN LET fb2 == Append(fb, b)
                 IN  IF b = END_BYTE /\ Len(fb2) >= MIN_FRAME_LEN
                         THEN LET r  == parse_frame(fb2, checks)
                                  c2 == Append(cs, [frame |-> fb2, at |-> pos,
                                                    result |-> r])
                              IN  CASE r.kind = "Ok" ->
                                         [same EXCEPT
                                            !.frame_buffer = <<>>,
                                            !.last_values = r.data,
                                            !.elapsed = 0,
                                            !.tasks = Append(ts,
                                                NewTask("esp32_write", r.data)),
                                            !.calls = c2]
                                    [] r.kind = "Err" ->
                                         [same EXCEPT !.frame_buffer = <<>>,
                                                      !.calls = c2]
                                    [] OTHER ->
                                         [same EXCEPT !.frame_buffer = fb2,
                                                      !.calls = c2,
                                                      !.panicked = TRUE]
                         ELSE [same EXCEPT !.frame_buffer = fb2]
        ELSE same

(* The recorded time: nothing has happened yet. *)
ClockStart == [now |-> 0, started |-> None, decoded |-> None,
               republished |-> None]

(* `d` milliseconds pass; time is recorded up to the horizon of the run. *)
Advance(c, d) == [c EXCEPT !.now = Min(c.now + d, limits.clock_ms)]

(* The iteration that ends now decoded a frame, dispatched a republish. *)
Stamp(c, decoded, republished) ==
    [c EXCEPT !.decoded     = IF decoded THEN Some(c.now) ELSE @,
              !.republished = IF republished THEN Some(c.now) ELSE @]

(* esp32.rs 37-41: Self::new() at the start of start_listener. *)
EspOpen ==
    /\ esp_pc = "open"
    /\ \E ok \in BOOLEAN :
         IF ok
            THEN /\ esp_pc' = "read"
                 /\ io_errors' = io_errors
                 /\ clock' = [clock EXCEPT !.started = Some(clock.now)]
            ELSE /\ esp_pc' = "failed"
                 /\ io_errors' = io_errors + 1
                 /\ clock' = clock
    /\ buffer' = <<>>
    /\ frame_buffer' = <<>>
    /\ last_values' = ESP32Data_default
    /\ elapsed_ms' = 0
    /\ UNCHANGED <<overflow_checks, wire, calls, tasks, lock, store, NonSerialVars>>

(* esp32.rs 43-76, 85-98: one loop iteration whose read returns a byte. *)
EspReadByte ==
    /\ esp_pc = "read"
    /\ wire # <<>>
    /\ \E b \in {Head(wire)} :
       \E r \in {OnByte(b, frame_buffer, last_values, elapsed_ms, tasks, calls,
                        Len(buffer) + 1, overflow_checks)} :
       \E k \in {RetentionCheck(r.elapsed, r.last_values, r.tasks)} :
           /\ wire' = Tail(wire)
           /\ buffer' = Append(buffer, b)
           /\ frame_buffer' = r.frame_buffer
           /\ last_values' = r.last_values
           /\ calls' = r.calls
           /\ IF r.panicked
                 THEN /\ esp_pc' = "panicked"
                      /\ tasks' = r.tasks
                      /\ elapsed_ms' = r.elapsed
                      /\ clock' = clock
                 ELSE /\ esp_pc' = "read"
                      /\ tasks' = k.tasks
                      /\ elapsed_ms' = k.elapsed
                      /\ clock' = Stamp(clock, Len(r.tasks) > Len(tasks),
                                        Len(k.tasks) > Len(r.tasks))
    /\ UNCHANGED <<overflow_checks, io_errors, lock, store, NonSerialVars>>

(* A read failure that records the engine-link error and retries. *)
EspReadErr_RecordsError ==
    /\ esp_pc = "read"
    /\ io_errors < limits.io_errors
    /\ io_errors' = io_errors + 1
    /\ esp_pc' = "sleep"
    /\ store' = [store EXCEPT !.esp32_error = Some([kind |-> "ESP32",
                                                    msg |-> "read failed"])]
    /\ UNCHANGED <<overflow_checks, wire, buffer, frame_buffer, last_values,
                   elapsed_ms, calls, clock, tasks, lock, NonSerialVars>>

(* esp32.rs 77-80: the read fails; the error is logged and the task sleeps. *)
EspReadErr ==
    /\ esp_pc = "read"
    /\ io_errors < limits.io_errors
    /\ io_errors' = io_errors + 1
    /\ esp_pc' = "sleep"
    /\ UNCHANGED <<overflow_checks, wire, buffer, frame_buffer, last_values,
                   elapsed_ms, calls, clock, tasks, lock, store, NonSerialVars>>

(* esp32.rs 80: the one-second sleep is over. *)
EspSleepDone ==
    /\ esp_pc = "sleep"
    /\ esp_pc' = "reopen"
    /\ elapsed_ms' = Min(elapsed_ms + RECONNECT_SLEEP_MS, VALUE_RETENTION_MS)
    /\ clock' = Advance(clock, RECONNECT_SLEEP_MS)
    /\ UNCHANGED <<overflow_checks, wire, buffer, frame_buffer, last_values,
                   io_errors, calls, tasks, lock, store, NonSerialVars>>

(* esp32.rs 81, 85-98: `connection = Self::new().await?`, then the         *)
(* retention check of the same iteration.                                  *)
EspReopen ==
    /\ esp_pc = "reopen"
    /\ \E ok \in BOOLEAN :
         IF ok
            THEN LET k == RetentionCheck(elapsed_ms, ESP32Data_default, tasks)
                 IN  /\ esp_pc' = "read"
                     /\ last_values' = ESP32Data_default
                     /\ tasks' = k.tasks
                     /\ elapsed_ms' = k.elapsed
                     /\ io_errors' = io_errors
                     /\ clock' = Stamp(clock, FALSE, Len(k.tasks) > Len(tasks))
            ELSE /\ esp_pc' = "failed"
                 /\ io_errors' = io_errors + 1
                 /\ UNCHANGED <<last_values, tasks, elapsed_ms, clock>>
    /\ UNCHANGED <<overflow_checks, wire, buffer, frame_buffer, calls, lock,
                   store, NonSerialVars>>

(* main.rs 63-65: start_listener returned Err; main's task waits for the lock. *)
MainEsp32Lock ==
    /\ esp_pc = "failed"
    /\ lock = NoHolder
    /\ lock' = <<"main_esp32", 0>>
    /\ esp_pc' = "err_locked"
    /\ UNCHANGED <<overflow_checks, wire, buffer, frame_buffer, last_values,
                   elapsed_ms, io_errors, calls, clock, tasks, store,
                   NonSerialVars>>

(* main.rs 66-67, telemetry.rs 117-119: set_esp32_error, guard dropped. *)
MainEsp32SetError ==
    /\ esp_pc = "err_locked"
    /\ store' = [store EXCEPT !.esp32_error = Some([kind |-> "ESP32",
                                                    msg |-> "open failed"])]
    /\ lock' = NoHolder
    /\ esp_pc' = "terminated"
    /\ UNCHANGED <<overflow_checks, wire, buffer, frame_buffer, last_values,
                   elapsed_ms, io_errors, calls, clock, tasks, NonSerialVars>>

(* Time passes while the listener awaits its next byte. *)
Tick ==
    /\ esp_pc = "read"
    /\ elapsed_ms < VALUE_RETENTION_MS
    /\ Retains(tasks) < limits.retains
    /\ elapsed_ms' = Min(elapsed_ms + TickMs, VALUE_RETENTION_MS)
    /\ clock' = Advance(clock, TickMs)
    /\ UNCHANGED <<overflow_checks, wire, esp_pc, buffer, frame_buffer,
                   last_values, io_errors, calls, tasks, lock, store, NonSerialVars>>

(* Every spawned writer using try_lock: an update that finds the lock held *)
(* is dropped, whatever it carries.                                        *)
TaskLock_AllTry(i) ==
    /\ tasks[i].pc = "spawned"
    /\ IF lock = NoHolder
          THEN /\ lock' = TaskHolder(i)
               /\ tasks' = [tasks EXCEPT ![i].pc = "locked"]
          ELSE /\ lock' = lock
               /\ tasks' = [tasks EXCEPT ![i].pc = "dropped"]
    /\ UNCHANGED <<SerialVars, store, NonSerialVars>>

(* The first poll of a spawned writer: lock().await (esp32.rs 68,          *)
(* main.rs 38, 47) or try_lock() (esp32.rs 91).                            *)
TaskLock(i) ==
    /\ tasks[i].pc = "spawned"
    /\ IF lock = NoHolder
          THEN /\ lock' = TaskHolder(i)
               /\ tasks' = [tasks EXCEPT ![i].pc = "locked"]
          ELSE /\ lock' = lock
               /\ tasks' = [tasks EXCEPT ![i].pc =
                               IF IsRetain(tasks[i]) THEN "dropped" ELSE "waiting"]
    /\ UNCHANGED <<SerialVars, store, NonSerialVars>>

(* A writer suspended in lock().await gets the mutex once it is free. *)
TaskWake(i) ==
    /\ tasks[i].pc = "waiting"
    /\ lock = NoHolder
    /\ lock' = TaskHolder(i)
    /\ tasks' = [tasks EXCEPT ![i].pc = "locked"]
    /\ UNCHANGED <<SerialVars, store, NonSerialVars>>

(* A write that stores a fresh snapshot around the new sample. *)
TaskWriteEsp32_FreshSnapshot(i) ==
    /\ tasks[i].pc = "locked"
    /\ tasks[i].kind \in {"esp32_write", "esp32_retain"}
    /\ store' = [TelemetryState_new EXCEPT !.latest_esp32_data = tasks[i].data]
    /\ lock' = NoHolder
    /\ tasks' = [tasks EXCEPT ![i].pc = "done"]
    /\ UNCHANGED <<SerialVars, NonSerialVars>>

(* A write that keeps the stored value of every field the new sample      *)
(* leaves unset.                                                           *)
TaskWriteEsp32_Merge(i) ==
    /\ tasks[i].pc = "locked"
    /\ tasks[i].kind \in {"esp32_write", "esp32_retain"}
    /\ store' = [store EXCEPT !.latest_esp32_data =
                    [f \in DOMAIN tasks[i].data |->
                        IF tasks[i].data[f] = None
                           THEN store.latest_esp32_data[f]
                           ELSE tasks[i].data[f]]]
    /\ lock' = NoHolder
    /\ tasks' = [tasks EXCEPT ![i].pc = "done"]
    /\ UNCHANGED <<SerialVars, NonSerialVars>>

(* esp32.rs 69 and 92: the engine sample is replaced and the guard dropped. *)
TaskWriteEsp32(i) ==
    /\ tasks[i].pc = "locked"
    /\ tasks[i].kind \in {"esp32_write", "esp32_retain"}
    /\ store' = [store EXCEPT !.latest_esp32_data = tasks[i].data]
    /\ lock' = NoHolder
    /\ tasks' = [tasks EXCEPT ![i].pc = "done"]
    /\ UNCHANGED <<SerialVars, NonSerialVars>>

(* main.rs 39: the position sample is replaced; the guard is still held. *)
TaskWriteRacebox(i) ==
    /\ tasks[i].pc = "locked"
    /\ tasks[i].kind = "ble_data"
    /\ store' = [store EXCEPT !.latest_racebox_data = Some(tasks[i].data)]
    /\ tasks' = [tasks EXCEPT ![i].pc = "mid"]
    /\ UNCHANGED <<SerialVars, lock, NonSerialVars>>

(* main.rs 40-41, telemetry.rs 121-123: clear_racebox_error, guard dropped. *)
TaskClearRaceboxError(i) ==
    /\ tasks[i].pc = "mid"
    /\ store' = [store EXCEPT !.racebox_error = None]
    /\ lock' = NoHolder
    /\ tasks' = [tasks EXCEPT ![i].pc = "done"]
    /\ UNCHANGED <<SerialVars, NonSerialVars>>

(* An error report that also withdraws the position sample. *)
TaskSetRaceboxError_DropsSample(i) ==
    /\ tasks[i].pc = "locked"
    /\ tasks[i].kind = "ble_error"
    /\ store' = [store EXCEPT !.racebox_error =
                                  Some([kind |-> "BLE", msg |-> tasks[i].data]),
                              !.latest_racebox_data = None]
    /\ lock' = NoHolder
    /\ tasks' = [tasks EXCEPT ![i].pc = "done"]
    /\ UNCHANGED <<SerialVars, NonSerialVars>>

(* main.rs 48-49, telemetry.rs 113-115: set_racebox_error, guard dropped. *)
TaskSetRaceboxError(i) ==
    /\ tasks[i].pc = "locked"
    /\ tasks[i].kind = "ble_error"
    /\ store' = [store EXCEPT !.racebox_error =
                    Some([kind |-> "BLE", msg |-> tasks[i].data])]
    /\ lock' = NoHolder
    /\ tasks' = [tasks EXCEPT ![i].pc = "done"]
    /\ UNCHANGED <<SerialVars, NonSerialVars>>

(* The tokio runtime polls one spawned task. *)
TaskStep(i) ==
    \/ TaskLock(i)
    \/ TaskWake(i)
    \/ TaskWriteEsp32(i)

(* The tokio runtime runs the body of one beacon callback task. *)
BleTaskWrite(i) ==
    \/ TaskWriteRacebox(i)
    \/ TaskClearRaceboxError(i)
    \/ TaskSetRaceboxError(i)

----------------------------------------------------------------------------
(* racebox/parser.rs: parse_packet.  data[i] of the source is D(data, i).  *)
(* A float value n/d is kept as the pair <<n, d>>.                         *)

D(data, i) == data[i + 1]

(* The value raw * mul / div, kept exact. *)
Scaled(raw, mul, div) == <<raw, mul, div>>

Ratio(n, d) == Scaled(n, 1, d)

u16_from_le_bytes(data, i) == D(data, i) + 256 * D(data, i + 1)

u32_from_le_bytes(data, i) ==
    D(data, i) + 256 * D(data, i + 1) + 65536 * D(data, i + 2)
        + 16777216 * D(data, i + 3)

i16_from_le_bytes(data, i) ==
    LET u == u16_from_le_bytes(data, i) IN IF u >= 32768 THEN u - 65536 ELSE u

(* The four bytes taken most significant first. *)
i32_from_le_bytes_BigEndian(data, i) ==
    LET top == IF D(data, i) >= 128 THEN D(data, i) - 256 ELSE D(data, i)
    IN  D(data, i + 3) + 256 * D(data, i + 2) + 65536 * D(data, i + 1)
            + 16777216 * top

(* Two's complement, computed without leaving the 32-bit range. *)
i32_from_le_bytes(data, i) ==
    LET top == IF D(data, i + 3) >= 128 THEN D(data, i + 3) - 256
               ELSE D(data, i + 3)
    IN  D(data, i) + 256 * D(data, i + 1) + 65536 * D(data, i + 2)
            + 16777216 * top

PACKET_MIN_LEN == 80

(* A guard that tests the two sync bytes only. *)
packet_rejected_SyncOnly(data) ==
    \/ Len(data) < PACKET_MIN_LEN
    \/ D(data, 0) # 181 \/ D(data, 1) # 98

(* parser.rs 35: the guard of parse_packet, evaluated left to right. *)
packet_rejected(data) ==
    \/ Len(data) < PACKET_MIN_LEN
    \/ D(data, 0) # 181 \/ D(data, 1) # 98
    \/ D(data, 2) # 255 \/ D(data, 3) # 1

(* parser.rs 39-84: the offsets the field decoders index. *)
FieldOffsets == (6 .. 17) \cup {20, 21, 23} \cup (24 .. 65) \cup (68 .. 79)

(* parser.rs 35-84: the offsets of `data` a call indexes: none when the    *)
(* length test fails, the preamble up to the first mismatch when that      *)
(* fails, and the field offsets of an accepted payload.                    *)
parse_packet_reads(data) ==
    IF Len(data) < PACKET_MIN_LEN THEN {}
    ELSE IF D(data, 0) # 181 THEN {0}
    ELSE IF D(data, 1) # 98 THEN 0 .. 1
    ELSE IF D(data, 2) # 255 THEN 0 .. 2
    ELSE IF D(data, 3) # 1 THEN 0 .. 3
    ELSE (0 .. 3) \cup FieldOffsets

(* A decoder that takes the satellite count from offset 22. *)
parse_packet_SatellitesAt22(data) ==
    IF packet_rejected(data)
        THEN None
        ELSE Some(
            [timestamp_ms |-> u32_from_le_bytes(data, 6),
             year         |-> u16_from_le_bytes(data, 10),
             month        |-> D(data, 12),
             day          |-> D(data, 13),
             hour         |-> D(data, 14),
             minute       |-> D(data, 15),
             second       |-> D(data, 16),
             valid_date   |-> Bit(D(data, 17), 0),
             valid_time   |-> Bit(D(data, 17), 1),
             fix_status   |-> D(data, 20),
             fix_ok       |-> Bit(D(data, 21), 0),
             num_sv       |-> D(data, 22),
             latitude     |-> Ratio(i32_from_le_bytes(data, 28), 10000000),
             longitude    |-> Ratio(i32_from_le_bytes(data, 24), 10000000),
             wgs_alt      |-> Ratio(i32_from_le_bytes(data, 32), 1000),
             msl_alt      |-> Ratio(i32_from_le_bytes(data, 36), 1000),
             horiz_acc_mm |-> u32_from_le_bytes(data, 40),
             vert_acc_mm  |-> u32_from_le_bytes(data, 44),
             speed_kph    |-> Scaled(i32_from_le_bytes(data, 48), 36, 10000),
             heading_deg  |-> Ratio(i32_from_le_bytes(data, 52), 100000),
             speed_acc    |-> Ratio(u32_from_le_bytes(data, 56), 1000),
             heading_acc  |-> Ratio(u32_from_le_bytes(data, 60), 100000),
             pdop         |-> Ratio(u16_from_le_bytes(data, 64), 100),
             g_force_x    |-> Ratio(i16_from_le_bytes(data, 68), 1000),
             g_force_y    |-> Ratio(i16_from_le_bytes(data, 70), 1000),
             g_force_z    |-> Ratio(i16_from_le_bytes(data, 72), 1000),
             rot_rate_x   |-> Ratio(i16_from_le_bytes(data, 74), 100),
             rot_rate_y   |-> Ratio(i16_from_le_bytes(data, 76), 100),
             rot_rate_z   |-> Ratio(i16_from_le_bytes(data, 78), 100)])

parse_packet(data) ==
    IF packet_rejected(data)
        THEN None
        ELSE Some(
            [timestamp_ms |-> u32_from_le_bytes(data, 6),
             year         |-> u16_from_le_bytes(data, 10),
             month        |-> D(data, 12),
             day          |-> D(data, 13),
             hour         |-> D(data, 14),
             minute       |-> D(data, 15),
             second       |-> D(data, 16),
             valid_date   |-> Bit(D(data, 17), 0),
             valid_time   |-> Bit(D(data, 17), 1),
             fix_status   |-> D(data, 20),
             fix_ok       |-> Bit(D(data, 21), 0),
             num_sv       |-> D(data, 23),
             latitude     |-> Ratio(i32_from_le_bytes(data, 28), 10000000),
             longitude    |-> Ratio(i32_from_le_bytes(data, 24), 10000000),
             wgs_alt      |-> Ratio(i32_from_le_bytes(data, 32), 1000),
             msl_alt      |-> Ratio(i32_from_le_bytes(data, 36), 1000),
             horiz_acc_mm |-> u32_from_le_bytes(data, 40),
             vert_acc_mm  |-> u32_from_le_bytes(data, 44),
             speed_kph    |-> Scaled(i32_from_le_bytes(data, 48), 36, 10000),
             heading_deg  |-> Ratio(i32_from_le_bytes(data, 52), 100000),
             speed_acc    |-> Ratio(u32_from_le_bytes(data, 56), 1000),
             heading_acc  |-> Ratio(u32_from_le_bytes(data, 60), 100000),
             pdop         |-> Ratio(u16_from_le_bytes(data, 64), 100),
             g_force_x    |-> Ratio(i16_from_le_bytes(data, 68), 1000),
             g_force_y    |-> Ratio(i16_from_le_bytes(data, 70), 1000),
             g_force_z    |-> Ratio(i16_from_le_bytes(data, 72), 1000),
             rot_rate_x   |-> Ratio(i16_from_le_bytes(data, 74), 100),
             rot_rate_y   |-> Ratio(i16_from_le_bytes(data, 76), 100),
             rot_rate_z   |-> Ratio(i16_from_le_bytes(data, 78), 100)])

(* Notification payloads the beacon sends in the model: 80 bytes, the      *)
(* preamble B5 62 FF 01, g-force x at offset 68, everything else zero.     *)
Payload(gx_lo, gx_hi) ==
    [i \in 1 .. PACKET_MIN_LEN |->
        CASE i = 1  -> 181
          [] i = 2  -> 98
          [] i = 3  -> 255
          [] i = 4  -> 1
          [] i = 69 -> gx_lo
          [] i = 70 -> gx_hi
          [] OTHER  -> 0]

PayloadA == Payload(244, 1)        \* g_force_x = 500 milli-g
PayloadB == Payload(12, 254)       \* g_force_x = -500 milli-g
PayloadShort == SubSeq(PayloadA, 1, PACKET_MIN_LEN - 1)
PayloadBadPreamble == [PayloadA EXCEPT ![3] = 0]

Payloads == {PayloadA, PayloadB, PayloadShort, PayloadBadPreamble}

(* The four bytes of a signed 32-bit value, least significant first. *)
LeBytes32(v) ==
    <<v % 256, (v \div 256) % 256, (v \div 65536) % 256,
      (v \div 16777216) % 256>>

(* `data` with `bytes` stored from offset `off`. *)
StoreAt(data, off, bytes) ==
    [i \in 1 .. Len(data) |->
        IF i - 1 \in off .. (off + Len(bytes) - 1)
           THEN bytes[i - off] ELSE data[i]]

(* A Data Message with the given raw longitude, latitude and speed. *)
PayloadGps(lon, lat, speed) ==
    StoreAt(StoreAt(StoreAt(Payload(0, 0), 24, LeBytes32(lon)),
                    28, LeBytes32(lat)),
            48, LeBytes32(speed))

RawLatitudes == {481234560, -338688000, 0, 1, -1, 900000000, -900000000}
RawSpeeds == {1000, 0, 27778, -1, 255, 256, 65536}
RawLongitude == 23522190

GpsPayloads ==
    { PayloadGps(RawLongitude, lat, speed) : lat \in RawLatitudes,
                                            speed \in RawSpeeds }

PayloadExample == PayloadGps(RawLongitude, 481234560, 1000)

PreambleValues == {0, 1, 98, 181, 255}

(* parser.rs 35-84: the offsets below 80 no field decoder indexes (payload *)
(* length, reserved bytes, date and time flags), and payloads that differ  *)
(* from the example there, or after offset 79, only.                       *)
SkippedOffsets == {4, 5, 18, 19, 22, 66, 67}
SkippedValues == {1, 80, 255}
Trailers == {<<0>>, <<181, 98, 255, 1>>, <<18, 52>>, <<255, 255>>}

SkippedPayloads ==
    { [PayloadExample EXCEPT ![i + 1] = v] :
          i \in SkippedOffsets, v \in SkippedValues }
    \cup { [PayloadExample EXCEPT ![5] = 80, ![23] = 7] \o t : t \in Trailers }
    \cup { [p \in 1 .. PACKET_MIN_LEN |->
               IF p - 1 \in SkippedOffsets THEN v ELSE PayloadExample[p]] :
               v \in SkippedValues }

(* Payloads of every length up to 80, longer ones, and ones with one       *)
(* preamble byte changed.                                                  *)
CandidatePayloads ==
    GpsPayloads
    \cup { SubSeq(PayloadExample, 1, n) : n \in 0 .. PACKET_MIN_LEN }
    \cup { PayloadExample \o t : t \in Trailers }
    \cup SkippedPayloads
    \cup { [PayloadExample EXCEPT ![i] = v] : i \in 1 .. 4, v \in PreambleValues }
    \cup { [SubSeq(PayloadExample, 1, n) EXCEPT ![i] = v] :
               n \in 4 .. 5, i \in 1 .. 4, v \in PreambleValues }

----------------------------------------------------------------------------
(* racebox/ble.rs: start_ble_listener *)

NAME_PREFIX == <<"R", "a", "c", "e", "B", "o", "x", " ", "M", "i", "c", "r", "o">>

starts_with(name, prefix) ==
    Len(name) >= Len(prefix) /\ SubSeq(name, 1, Len(prefix)) = prefix

(* A visible peripheral: its advertised local name (an Option) and whether *)
(* it offers the UART service and, in it, the TX characteristic.           *)
Peripheral(name, uart, tx) == [local_name |-> name, has_uart |-> uart, has_tx |-> tx]

RaceBox    == Peripheral(Some(NAME_PREFIX \o <<" ", "1">>), TRUE, TRUE)
RaceBoxNoTx == Peripheral(Some(NAME_PREFIX), TRUE, FALSE)
RaceBoxNoUart == Peripheral(Some(NAME_PREFIX), FALSE, FALSE)
OtherDevice == Peripheral(Some(<<"R", "a", "c", "e", "B", "o", "x">>), TRUE, TRUE)
Nameless   == Peripheral(None, TRUE, TRUE)

PeripheralLists ==
    { <<>>, <<RaceBox>>, <<OtherDevice, RaceBox>>, <<Nameless>>,
      <<RaceBoxNoTx, RaceBox>>, <<Nameless, RaceBoxNoUart>>,
      <<RaceBox, RaceBox>> }

(* The tiers taken one cycle late. *)
SleepDuration_OneCycleLate(n) == IF n <= 10 THEN 1 ELSE IF n <= 20 THEN 3 ELSE 10

(* ble.rs 113-119: the tiered scan interval, in seconds. *)
SleepDuration(n) == IF n < 10 THEN 1 ELSE IF n < 20 THEN 3 ELSE 10

(* An error callback invoked twice for one failure. *)
on_error_Twice(ts, err) ==
    Append(Append(ts, NewTask("ble_error", err)), NewTask("ble_error", err))

(* main.rs 43-50: the error callback logs and spawns a store writer. *)
on_error(ts, err) == Append(ts, NewTask("ble_error", err))

(* main.rs 35-42: the data callback spawns a store writer. *)
on_data(ts, parsed) == Append(ts, NewTask("ble_data", parsed))

CanFail == ble_failures < limits.ble_failures

(* A `continue` after which the scan loop always goes on. *)
NextPeripheral_AlwaysRescans(rest, conn) ==
    IF rest # <<>> THEN "properties" ELSE "scan_sleep"

(* ble.rs 136, 111: `continue` in the for loop: on to the next peripheral  *)
(* of the cycle; after the last one, back to `while !connected`.           *)
NextPeripheral(rest, conn) ==
    IF rest # <<>> THEN "properties"
    ELSE IF conn THEN "ended" ELSE "scan_sleep"

(* A stage whose failure ends the listener (ble.rs 53-99), outcome `out`. *)
BleSetup(stage, next, out, err) ==
    /\ ble_pc = stage
    /\ IF out = "ok"
          THEN /\ ble_pc' = next
               /\ UNCHANGED <<tasks, ble_failures>>
          ELSE /\ CanFail
               /\ ble_pc' = "ended"
               /\ tasks' = on_error(tasks, err)
               /\ ble_failures' = ble_failures + 1
    /\ UNCHANGED <<SerialVars, lock, store, limits, CallVars, UiVars, scan_count,
                   connected, periph, sleep_secs, notified, inbox>>

(* ble.rs 53-63: Manager::new().await *)
BleManager ==
    /\ ble_pc = "manager"
    /\ \E out \in {"ok", "err"} :
        BleSetup("manager", "adapters", out, "ManagerCreation")

(* ble.rs 65-87: manager.adapters().await and the first adapter *)
BleAdapters ==
    /\ ble_pc = "adapters"
    /\ \E out \in {"ok", "err", "none"} :
        BleSetup("adapters", "scan_start", out,
                 IF out = "none" THEN "NoAdapter" ELSE "ManagerCreation")

(* ble.rs 89-102: start_scan; "already in progress" is ignored *)
BleScanStart ==
    /\ ble_pc = "scan_start"
    /\ \E out \in {"ok", "in_progress", "err"} :
        BleSetup("scan_start", "scan_sleep",
                 IF out = "in_progress" THEN "ok" ELSE out, "ScanStart")

(* ble.rs 111-122: the sleep that opens a scan cycle *)
BleScanSleep ==
    /\ ble_pc = "scan_sleep"
    /\ scan_count < limits.scans
    /\ sleep_secs' = SleepDuration(scan_count)
    /\ scan_count' = scan_count + 1
    /\ ble_pc' = "peripherals"
    /\ UNCHANGED <<SerialVars, tasks, lock, store, limits, CallVars, UiVars, connected,
                   periph, ble_failures, notified, inbox>>

(* ble.rs 124-136: central.peripherals().await *)
BlePeripherals ==
    /\ ble_pc = "peripherals"
    /\ \/ \E list \in PeripheralLists :
            /\ Len(list) <= limits.peripherals
            /\ periph' = list
            /\ ble_pc' = NextPeripheral(list, connected)
            /\ UNCHANGED <<tasks, ble_failures>>
       \/ /\ CanFail
          /\ tasks' = on_error(tasks, "PeripheralDiscovery")
          /\ ble_failures' = ble_failures + 1
          /\ ble_pc' = "scan_sleep"
          /\ periph' = <<>>
    /\ UNCHANGED <<SerialVars, lock, store, limits, CallVars, UiVars, scan_count,
                   connected, sleep_secs, notified, inbox>>

(* ble.rs 137-140: p.properties().await and the name prefix test *)
BleProperties ==
    /\ ble_pc = "properties"
    /\ LET p == Head(periph)
       IN  IF p.local_name # None /\ starts_with(p.local_name[1], NAME_PREFIX)
              THEN /\ ble_pc' = "connect"
                   /\ periph' = periph
              ELSE /\ ble_pc' = NextPeripheral(Tail(periph), connected)
                   /\ periph' = Tail(periph)
    /\ UNCHANGED <<SerialVars, tasks, lock, store, limits, CallVars, UiVars, scan_count,
                   connected, sleep_secs, ble_failures, notified, inbox>>

(* One step of the connection sequence of the selected peripheral: on      *)
(* success go to `next`, on failure report `err` and `continue`.           *)
BleStage(stage, next, ok, err) ==
    /\ ble_pc = stage
    /\ IF ok
          THEN /\ ble_pc' = next
               /\ UNCHANGED <<tasks, ble_failures, periph>>
          ELSE /\ tasks' = on_error(tasks, err)
               /\ ble_failures' = ble_failures + 1
               /\ ble_pc' = NextPeripheral(Tail(periph), connected)
               /\ periph' = Tail(periph)
    /\ UNCHANGED <<SerialVars, lock, store, limits, CallVars, UiVars, scan_count,
                   sleep_secs, notified, inbox>>

(* ble.rs 142-146: p.connect().await *)
BleConnect ==
    \E ok \in BOOLEAN :
        /\ ok \/ CanFail
        /\ BleStage("connect", "discover", ok, "Connection")
        /\ UNCHANGED connected

(* ble.rs 150-180, 210-214: discover_services, then the UART service and   *)
(* its TX characteristic are looked up                                     *)
BleDiscover ==
    \E ok \in BOOLEAN :
        /\ ok \/ CanFail
        /\ LET p == Head(periph)
           IN  IF ~ok
                  THEN BleStage("discover", "subscribe", FALSE, "ServiceDiscovery")
                  ELSE BleStage("discover", "subscribe",
                                p.has_uart /\ p.has_tx, "CharacteristicNotFound")
        /\ UNCHANGED connected

(* ble.rs 182-186: p.subscribe(tx).await *)
BleSubscribe ==
    \E ok \in BOOLEAN :
        /\ ok \/ CanFail
        /\ BleStage("subscribe", "notifications", ok, "Subscription")
        /\ UNCHANGED connected

(* ble.rs 190-200: p.notifications().await; on success connected = true *)
BleNotifications ==
    \E ok \in BOOLEAN :
        /\ ok \/ CanFail
        /\ BleStage("notifications", "streaming", ok, "NotificationSetup")
        /\ connected' = (IF ok THEN TRUE ELSE connected)

(* A notification step that reports a rejected payload as an error. *)
BleNotify_RejectReports ==
    /\ ble_pc = "streaming"
    /\ notified < limits.notifications
    /\ \E payload \in Payloads :
          LET parsed == parse_packet(payload)
          IN  /\ tasks' = IF parsed # None THEN on_data(tasks, parsed[1])
                                           ELSE on_error(tasks, "Parse")
              /\ inbox' = Append(inbox, Some(payload))
    /\ notified' = notified + 1
    /\ UNCHANGED <<SerialVars, lock, store, limits, CallVars, UiVars, ble_pc,
                   scan_count, connected, periph, sleep_secs, ble_failures>>

(* ble.rs 201-209: one notification: parse_packet, then the data callback  *)
(* or a warning                                                            *)
BleNotify ==
    /\ ble_pc = "streaming"
    /\ notified < limits.notifications
    /\ \E payload \in Payloads :
          LET parsed == parse_packet(payload)
          IN  /\ tasks' = IF parsed # None THEN on_data(tasks, parsed[1]) ELSE tasks
              /\ inbox' = Append(inbox, Some(payload))
    /\ notified' = notified + 1
    /\ UNCHANGED <<SerialVars, lock, store, limits, CallVars, UiVars, ble_pc,
                   scan_count, connected, periph, sleep_secs, ble_failures>>

(* ble.rs 201: the notification stream ends; the for loop goes on *)
BleStreamEnd ==
    /\ ble_pc = "streaming"
    /\ ble_pc' = NextPeripheral(Tail(periph), connected)
    /\ periph' = Tail(periph)
    /\ inbox' = Append(inbox, None)
    /\ UNCHANGED <<SerialVars, tasks, lock, store, limits, CallVars, UiVars, scan_count,
                   connected, sleep_secs, ble_failures, notified>>

BleStep ==
    \/ BleManager
    \/ BleAdapters
    \/ BleScanStart
    \/ BleScanSleep
    \/ BlePeripherals
    \/ BleProperties
    \/ BleConnect
    \/ BleDiscover
    \/ BleSubscribe
    \/ BleNotifications
    \/ BleNotify
    \/ BleStreamEnd

----------------------------------------------------------------------------
(* ui/render.rs: render_ui, one pass of the UI thread.  The pass has five  *)
(* sections that each try_lock the store, read, and drop the guard.        *)

RenderHolder == <<"render", 0>>

RenderStart == [stage |-> "selectors", held |-> FALSE]

EmptyShown == [selectors |-> None, gforce |-> None, boost_gauge |-> None,
               rpm |-> None, boost_text |-> None, flushed |-> FALSE]

NextStage(stage) ==
    CASE stage = "selectors"   -> "gforce"
      [] stage = "gforce"      -> "boost_gauge"
      [] stage = "boost_gauge" -> "rpm"
      [] stage = "rpm"         -> "boost_text"
      [] stage = "boost_text"  -> "selectors"

(* render.rs 104-108 and 211-215 return from render_ui when try_lock      *)
(* fails; the three widget sections are only skipped.                      *)
ReturnsOnContention(stage) == stage \in {"selectors", "boost_text"}

(* What a section reads while it holds the guard. *)
ReadStage(stage, state) ==
    CASE stage = "selectors"   -> <<state.drive_mode, state.color_scheme>>
      [] stage = "gforce"      ->
            IF state.latest_racebox_data = None THEN None
            ELSE LET d == state.latest_racebox_data[1]
                 IN  Some(<<d.g_force_x, d.g_force_y, d.g_force_z>>)
      [] stage = "boost_gauge" -> state.latest_esp32_data.boost_pressure
      [] stage = "rpm"         -> state.latest_esp32_data.rpm
      [] stage = "boost_text"  ->
            IF state.latest_esp32_data.boost_pressure = None
            THEN <<"No boost data available">>
            ELSE <<"Boost: ", state.latest_esp32_data.boost_pressure[1], " mbar">>

(* A section's try_lock with the lock as the section `holder` sees it. *)
TryLockSection(holder) ==
    /\ ~render_pc.held
    /\ LET stage == render_pc.stage
           base  == IF stage = "selectors" THEN EmptyShown ELSE shown
       IN  IF holder = NoHolder
              THEN /\ lock' = RenderHolder
                   /\ render_pc' = [render_pc EXCEPT !.held = TRUE]
                   /\ shown' = base
              ELSE /\ lock' = lock
                   /\ render_pc' = [stage |-> IF ReturnsOnContention(stage)
                                                 THEN "selectors"
                                                 ELSE NextStage(stage),
                                    held |-> FALSE]
                   /\ shown' = base
    /\ UNCHANGED <<SerialVars, tasks, store, limits, CallVars, BleVars, cmd_pc, cmd_line,
                   responses>>

(* A section that would wait for the guard instead of trying for it. *)
RenderTryLock_Blocking ==
    /\ ~render_pc.held
    /\ lock = NoHolder
    /\ TryLockSection(NoHolder)

(* A section that takes the guard without looking at its holder. *)
RenderTryLock_NoExclusion ==
    /\ ~render_pc.held
    /\ TryLockSection(NoHolder)

(* render.rs 103, 162, 180, 210; g_force_meter.rs 45: try_lock *)
RenderTryLock ==
    /\ ~render_pc.held
    /\ TryLockSection(lock)

(* render.rs 110, 163-166, 181-183, 224-241; g_force_meter.rs 50-53: the   *)
(* section reads under the guard and drops it; the last section flushes.   *)
RenderRead ==
    /\ render_pc.held
    /\ LET stage == render_pc.stage
       IN  /\ shown' = [shown EXCEPT ![stage] = Some(ReadStage(stage, store)),
                                     !.flushed = (stage = "boost_text")]
           /\ render_pc' = [stage |-> NextStage(stage), held |-> FALSE]
    /\ lock' = NoHolder
    /\ UNCHANGED <<SerialVars, tasks, store, limits, CallVars, BleVars, cmd_pc, cmd_line,
                   responses>>

RenderStep == RenderTryLock \/ RenderRead

----------------------------------------------------------------------------
(* main.rs 92-118: handle_command.  A line is the sequence of its tokens   *)
(* (cmd.trim().split_whitespace()).                                        *)

CommandHolder == <<"command", 0>>

CommandLines ==
    { <<"set_mode", "Track">>, <<"set_mode", "Road">>, <<"set_mode", "Sport">>,
      <<"set_scheme", "Dark">>, <<"set_scheme", "Light">>,
      <<"set_scheme", "Blue">>, <<"get_mode">>, <<>>,
      <<"set_mode", "Track", "now">> }

(* main.rs 97-113: the new selectors and the response to a token list. *)
ApplyCommand(state, tokens) ==
    IF Len(tokens) = 2 /\ tokens[1] = "set_mode"
       THEN IF tokens[2] \in {"Road", "Track"}
               THEN [state |-> [state EXCEPT !.drive_mode = tokens[2]],
                     response |-> <<"OK">>]
               ELSE [state |-> state,
                     response |-> <<"ERR invalid mode: ", tokens[2]>>]
    ELSE IF Len(tokens) = 2 /\ tokens[1] = "set_scheme"
       THEN IF tokens[2] \in {"Light", "Dark"}
               THEN [state |-> [state EXCEPT !.color_scheme = tokens[2]],
                     response |-> <<"OK">>]
               ELSE [state |-> state,
                     response |-> <<"ERR invalid scheme: ", tokens[2]>>]
    ELSE [state |-> state, response |-> <<"ERR unknown command">>]

(* What reader.lines() yields on a connection: Some(tokens of the line)   *)
(* for Ok(cmd), None for an Err item.                                      *)
Connections ==
    { <<Some(line)>> : line \in CommandLines }
    \cup { <<>>,
           <<None, Some(<<"set_mode", "Track">>)>>,
           <<Some(<<"set_mode", "Track">>), Some(<<"set_scheme", "Dark">>)>>,
           <<Some(<<"get_mode">>), Some(<<"set_mode", "Track">>)>> }

OkItems(items) == {i \in 1 .. Len(items) : items[i] # None}

(* main.rs 94-95: the first item of the connection that is an Ok line. *)
FirstOk(items) ==
    items[CHOOSE i \in OkItems(items) : \A j \in OkItems(items) : i <= j][1]

(* main.rs 86, 93-95: a connection is accepted and read up to its first    *)
(* Ok line; without one the handler returns with nothing written.          *)
CmdReceive ==
    /\ cmd_pc = "idle"
    /\ Len(responses) < limits.commands
    /\ \E conn \in Connections :
          IF OkItems(conn) = {}
             THEN /\ responses' = Append(responses,
                                         [received |-> conn, replies |-> <<>>])
                  /\ UNCHANGED <<cmd_pc, cmd_line>>
             ELSE /\ cmd_line' = conn
                  /\ cmd_pc' = "lock"
                  /\ UNCHANGED responses
    /\ UNCHANGED <<SerialVars, tasks, lock, store, limits, CallVars, BleVars, render_pc,
                   shown>>

(* main.rs 96: blocking_lock *)
CmdLock ==
    /\ cmd_pc = "lock"
    /\ lock = NoHolder
    /\ lock' = CommandHolder
    /\ cmd_pc' = "locked"
    /\ UNCHANGED <<SerialVars, tasks, store, limits, CallVars, BleVars, render_pc, shown,
                   cmd_line, responses>>

(* main.rs 97-116: selectors updated, response written, `break`, guard     *)
(* and stream dropped                                                      *)
CmdApply ==
    /\ cmd_pc = "locked"
    /\ LET r == ApplyCommand(store, FirstOk(cmd_line))
       IN  /\ store' = r.state
           /\ responses' = Append(responses,
                                  [received |-> cmd_line,
                                   replies |-> <<r.response>>])
    /\ lock' = NoHolder
    /\ cmd_pc' = "idle"
    /\ cmd_line' = <<>>
    /\ UNCHANGED <<SerialVars, tasks, limits, CallVars, BleVars, render_pc, shown>>

CmdStep == CmdReceive \/ CmdLock \/ CmdApply

----------------------------------------------------------------------------
(* Specifications *)

MaxScans == 1
MaxPeripherals == 2
MaxBleFailures == 1
MaxNotifications == 1
MaxCommands == 1

NoBudget == [io_errors |-> 0, retains |-> 0, scans |-> 0, peripherals |-> 0,
             ble_failures |-> 0, notifications |-> 0, commands |-> 0,
             clock_ms |-> 0]

(* State after construction (main.rs 17-33), before any task has run. *)
InitCommon ==
    /\ esp_pc = "open"
    /\ buffer = <<>>
    /\ frame_buffer = <<>>
    /\ last_values = ESP32Data_default
    /\ elapsed_ms = 0
    /\ io_errors = 0
    /\ calls = <<>>
    /\ clock = ClockStart
    /\ tasks = <<>>
    /\ lock = NoHolder
    /\ store = TelemetryState_new
    /\ ble_pc = "manager"
    /\ scan_count = 0
    /\ connected = FALSE
    /\ periph = <<>>
    /\ sleep_secs = 0
    /\ ble_failures = 0
    /\ notified = 0
    /\ inbox = <<>>
    /\ render_pc = RenderStart
    /\ shown = EmptyShown
    /\ cmd_pc = "idle"
    /\ cmd_line = <<>>
    /\ responses = <<>>

(* No pure function is called directly: the program runs. *)
NoCall == call_arg = None /\ call_ret = None

(* The serial listener and the tasks it spawns, over every modelled stream. *)
InitSerial ==
    /\ InitCommon
    /\ NoCall
    /\ overflow_checks \in BOOLEAN
    /\ wire \in SerialStreams
    /\ limits = [NoBudget EXCEPT !.io_errors = MaxErrors, !.retains = MaxRetains]

NextSerial ==
    \/ EspOpen
    \/ EspReadByte
    \/ EspReadErr
    \/ EspSleepDone
    \/ EspReopen
    \/ MainEsp32Lock
    \/ MainEsp32SetError
    \/ Tick
    \/ \E i \in 1 .. Len(tasks) : TaskStep(i)

SpecSerial == InitSerial /\ [][NextSerial]_vars

(* The beacon listener, its tasks, the render pass and the command handler. *)
InitBle ==
    /\ InitCommon
    /\ NoCall
    /\ overflow_checks = FALSE
    /\ wire = <<>>
    /\ limits = [NoBudget EXCEPT !.scans = MaxScans,
                                 !.peripherals = MaxPeripherals,
                                 !.ble_failures = MaxBleFailures,
                                 !.notifications = MaxNotifications,
                                 !.commands = MaxCommands]

NextBle ==
    \/ BleStep
    \/ \E i \in 1 .. Len(tasks) : TaskLock(i) \/ TaskWake(i) \/ BleTaskWrite(i)
    \/ RenderStep
    \/ CmdStep

SpecBle == InitBle /\ [][NextBle]_vars

(* The telemetry pipeline: both listeners, the tasks they spawn and the    *)
(* render pass, on one short stream and one beacon.                        *)
SysErrors == 1
SysRetains == 1
SysNotifications == 1
SysPeripherals == 1

Init ==
    /\ InitCommon
    /\ NoCall
    /\ overflow_checks = FALSE
    /\ wire = FrameThrottle
    /\ limits = [NoBudget EXCEPT !.io_errors = SysErrors,
                                 !.retains = SysRetains,
                                 !.scans = MaxScans,
                                 !.peripherals = SysPeripherals,
                                 !.notifications = SysNotifications]

Next ==
    \/ NextSerial
    \/ BleStep
    \/ \E i \in 1 .. Len(tasks) : BleTaskWrite(i)
    \/ RenderStep

Spec == Init /\ [][Next]_vars

(* Every writer of the snapshot: both listeners, their tasks, the render   *)
(* pass and the command handler.  A run has the engine link with a read    *)
(* failure and a republish, or the engine link with a command, or the      *)
(* beacon with a command.                                                  *)
SnapshotRuns ==
    { [wire |-> FrameThrottle,
       limits |-> [NoBudget EXCEPT !.io_errors = SysErrors,
                                   !.retains = SysRetains]],
      [wire |-> FrameThrottle,
       limits |-> [NoBudget EXCEPT !.commands = MaxCommands]],
      [wire |-> <<>>,
       limits |-> [NoBudget EXCEPT !.scans = MaxScans,
                                   !.peripherals = SysPeripherals,
                                   !.ble_failures = MaxBleFailures,
                                   !.notifications = SysNotifications,
                                   !.commands = MaxCommands]] }

InitSnapshot ==
    /\ InitCommon
    /\ NoCall
    /\ overflow_checks = FALSE
    /\ \E run \in SnapshotRuns :
          /\ wire = run.wire
          /\ limits = run.limits

NextSnapshot ==
    \/ NextSerial
    \/ BleStep
    \/ \E i \in 1 .. Len(tasks) : BleTaskWrite(i)
    \/ RenderStep
    \/ CmdStep

SpecSnapshot == InitSnapshot /\ [][NextSnapshot]_vars

(* The beacon listener on its own, over many scan cycles; the callback     *)
(* tasks it spawns are left unpolled.                                      *)
MaxScanCycles == 22
MaxListenerFailures == 2
MaxPayloads == 2

InitListener ==
    /\ InitCommon
    /\ NoCall
    /\ overflow_checks = FALSE
    /\ wire = <<>>
    /\ limits = [NoBudget EXCEPT !.scans = MaxScanCycles,
                                 !.peripherals = MaxPeripherals,
                                 !.ble_failures = MaxListenerFailures,
                                 !.notifications = MaxPayloads]

NextListener == BleStep

SpecListener == InitListener /\ [][NextListener]_vars

(* The beacon listener and the callback tasks it spawns, with two          *)
(* notifications in a run.                                                 *)
InitBleTasks ==
    /\ InitCommon
    /\ NoCall
    /\ overflow_checks = FALSE
    /\ wire = <<>>
    /\ limits = [NoBudget EXCEPT !.scans = MaxScans,
                                 !.peripherals = MaxPeripherals,
                                 !.ble_failures = MaxBleFailures,
                                 !.notifications = MaxPayloads]

NextBleTasks ==
    \/ BleStep
    \/ \E i \in 1 .. Len(tasks) : TaskLock(i) \/ TaskWake(i) \/ BleTaskWrite(i)

SpecBleTasks == InitBleTasks /\ [][NextBleTasks]_vars

(* The serial listener with time recorded, over an outage long enough for  *)
(* the retained sample to be republished more than once.                  *)
MaxRepublishes == 2
MaxOutages == 1
ClockHorizonMs == 10000

RetentionStreams == {FrameThrottle, FrameRpm \o FrameThrottle}

InitRetention ==
    /\ InitCommon
    /\ NoCall
    /\ overflow_checks = FALSE
    /\ wire \in RetentionStreams
    /\ limits = [NoBudget EXCEPT !.io_errors = MaxOutages,
                                 !.retains = MaxRepublishes,
                                 !.clock_ms = ClockHorizonMs]

NextRetention == NextSerial

SpecRetention == InitRetention /\ [][NextRetention]_vars

(* The serial listener over streams longer than any frame: bytes that     *)
(* never start a frame, a frame that is started and never ended, and two   *)
(* frames in a row.                                                        *)
LargestFrameLen == 260

IdleStream == [i \in 1 .. (LargestFrameLen + 1) |-> 0]
OpenStream == <<START_BYTE>> \o [i \in 1 .. LargestFrameLen |-> 0]

LongStreams == {IdleStream, OpenStream, FrameRpm \o FrameThrottle}

InitLongStreams ==
    /\ InitCommon
    /\ NoCall
    /\ overflow_checks \in BOOLEAN
    /\ wire \in LongStreams
    /\ limits = [NoBudget EXCEPT !.io_errors = MaxErrors, !.retains = MaxRetains]

NextLongStreams == NextSerial

SpecLongStreams == InitLongStreams /\ [][NextLongStreams]_vars

(* main.rs 97-114: the selectors are updated and write_all of a response   *)
(* that repeats a token of the line, of any length, does not return while  *)
(* the peer does not read; the guard is held.                              *)
CmdRespondBlocked ==
    /\ cmd_pc = "locked"
    /\ LET r == ApplyCommand(store, FirstOk(cmd_line))
       IN  /\ Len(r.response) = 2
           /\ store' = r.state
    /\ cmd_pc' = "writing"
    /\ UNCHANGED <<SerialVars, tasks, lock, limits, CallVars, BleVars, render_pc,
                   shown, cmd_line, responses>>

(* main.rs 114-116: the peer has read; write_all returns, `break`, guard   *)
(* and stream dropped.                                                     *)
CmdRespondDone ==
    /\ cmd_pc = "writing"
    /\ responses' = Append(responses,
                           [received |-> cmd_line,
                            replies |-> <<ApplyCommand(store, FirstOk(cmd_line)).response>>])
    /\ lock' = NoHolder
    /\ cmd_pc' = "idle"
    /\ cmd_line' = <<>>
    /\ UNCHANGED <<SerialVars, tasks, store, limits, CallVars, BleVars, render_pc,
                   shown>>

(* Every user of the store lock under fair scheduling: the write task of a *)
(* decoded frame, main's error path, the tasks of the beacon callbacks,    *)
(* the render pass and the command handler.                                *)
MaxFairTasks == 3

FairTaskIds == 1 .. MaxFairTasks

InitFair ==
    /\ InitCommon
    /\ NoCall
    /\ overflow_checks = FALSE
    /\ wire = FrameThrottle
    /\ limits = [NoBudget EXCEPT !.scans = MaxScans,
                                 !.peripherals = SysPeripherals,
                                 !.ble_failures = MaxBleFailures,
                                 !.notifications = SysNotifications,
                                 !.commands = MaxCommands]

NextFair ==
    \/ EspOpen
    \/ EspReadByte
    \/ MainEsp32Lock
    \/ MainEsp32SetError
    \/ \E i \in 1 .. Len(tasks) : TaskStep(i)
    \/ BleStep
    \/ \E i \in 1 .. Len(tasks) : BleTaskWrite(i)
    \/ RenderStep
    \/ CmdStep
    \/ CmdRespondBlocked
    \/ CmdRespondDone

(* tokio's mutex queues the callers of lock().await and blocking_lock()    *)
(* and hands the lock to the first of them when it is released: a waiter   *)
(* is served after finitely many releases (strong fairness of the          *)
(* acquiring steps).  The runtime polls every runnable task and the event  *)
(* loop and the handler thread keep running (weak fairness of the steps    *)
(* taken under the guard).  Nothing makes the peer of a connection read.   *)
Fairness ==
    /\ \A i \in FairTaskIds :
          /\ WF_vars(i \in DOMAIN tasks /\ TaskLock(i))
          /\ SF_vars(i \in DOMAIN tasks /\ TaskWake(i))
          /\ WF_vars(i \in DOMAIN tasks /\ TaskWriteEsp32(i))
          /\ WF_vars(i \in DOMAIN tasks /\ BleTaskWrite(i))
    /\ SF_vars(MainEsp32Lock)
    /\ WF_vars(MainEsp32SetError)
    /\ SF_vars(CmdLock)
    /\ WF_vars(CmdApply)
    /\ WF_vars(RenderRead)

SpecFair == InitFair /\ [][NextFair]_vars /\ Fairness

----------------------------------------------------------------------------
(* Direct calls of the pure functions, on inputs drawn at Init *)

(* A frame whose LENGTH byte is 0, closed by the read loop at 8 bytes. *)
FrameLenZero == <<START_BYTE, 0, 0, 0, END_BYTE, 1, 2, END_BYTE>>

(* A complete 6-byte frame (LENGTH 1: VER only) followed by two more bytes; *)
(* the read loop closes it at the second 0x55.                              *)
FrameVerOnlyLong == EncodeFrame(1, <<>>) \o <<0, END_BYTE>>

(* TLV entries whose declared length runs past the TLV region. *)
FrameTlvOverrun == EncodeFrame(1, <<9, 200, 50>>)
FrameTlvAtEnd == EncodeFrame(1, <<60, 0, 4>>)

(* Frames the device can build from TLV entries of the documented widths:  *)
(* one entry of every tag with several values, every ordered pair of tags  *)
(* (the same tag twice included), and the four tyres in one frame.         *)
Width(t) == IF t \in {6, 9, 10} THEN 1 ELSE 2

WordValues == {<<0, 0>>, <<11, 184>>, <<128, 0>>, <<255, 255>>, <<0, 171>>}
ByteValues == {<<0>>, <<50>>, <<129>>, <<255>>}

Entries(t) ==
    { <<t, Width(t)>> \o v :
        v \in IF Width(t) = 1 THEN ByteValues ELSE WordValues }

FirstEntry(t)  == <<t, Width(t)>> \o (IF Width(t) = 1 THEN <<50>> ELSE <<11, 184>>)
SecondEntry(t) == <<t, Width(t)>> \o (IF Width(t) = 1 THEN <<129>> ELSE <<255, 254>>)

TlvTyrePressures == <<11, 2, 0, 220, 12, 2, 0, 221, 13, 2, 0, 230, 14, 2, 0, 231>>
TlvTyreTemps     == <<18, 2, 0, 31, 17, 2, 255, 251, 16, 2, 0, 29, 15, 2, 0, 28>>

FrameVerOnly == EncodeFrame(1, <<>>)

TlvFrames ==
    { EncodeFrame(1, e) : e \in UNION { Entries(t) : t \in 1 .. 18 } }
      \cup { EncodeFrame(2, FirstEntry(t) \o SecondEntry(u)) :
               t \in 1 .. 18, u \in 1 .. 18 }
      \cup { EncodeFrame(3, TlvTyrePressures), EncodeFrame(3, TlvTyreTemps),
             FrameVerOnly }

(* Frames with entries of tags the decoder does not know, of several       *)
(* declared lengths, alone and before, between and after known entries;    *)
(* the value bytes of some read as entries of known tags themselves.       *)
UnknownTags == {0, 19, 60, 255}

UnknownValues == {<<>>, <<7>>, <<9, 1>>, <<4, 2, 0>>, <<4, 2, 0, 1, 9, 1, 99>>}

UnknownEntries ==
    { <<t, Len(v)>> \o v : t \in UnknownTags, v \in UnknownValues }

UnknownFrames ==
    UNION { { EncodeFrame(1, u),
              EncodeFrame(1, u \o TlvRpm),
              EncodeFrame(1, TlvRpm \o u),
              EncodeFrame(1, TlvThrottle \o u \o TlvRpm),
              EncodeFrame(1, u \o <<19, 1, 6>> \o TlvStatus) }
            : u \in UnknownEntries }
      \cup { EncodeFrame(1, TlvRpm), EncodeFrame(1, TlvThrottle \o TlvRpm),
             EncodeFrame(1, TlvStatus) }

(* Frames for the checksum: the check string "123456789" as VER and TLV    *)
(* with its published CRC-16/XMODEM 0x31C3 written out, the same with the  *)
(* CRC bytes low byte first, every value of the first and of the last      *)
(* checksummed byte, and a clean frame with its CRC bytes exchanged.       *)
FrameCheckString ==
    <<START_BYTE, 9, 49, 50, 51, 52, 53, 54, 55, 56, 57, 49, 195, END_BYTE>>

FrameCheckStringLowFirst ==
    <<START_BYTE, 9, 49, 50, 51, 52, 53, 54, 55, 56, 57, 195, 49, END_BYTE>>

CrcExchanged(f) ==
    [f EXCEPT ![Len(f) - 2] = f[Len(f) - 1], ![Len(f) - 1] = f[Len(f) - 2]]

CrcFrames ==
    { EncodeFrame(v, <<0, 0>>) : v \in 0 .. 255 }
      \cup { EncodeFrame(1, <<60, 1, x>>) : x \in 0 .. 255 }
      \cup { FrameCheckString, FrameCheckStringLowFirst, CrcExchanged(FrameRpm) }

(* Frames whose first entry has a known tag and a declared length below    *)
(* the width of the tag, alone and followed by other entries.              *)
ShortHeads == {<<4, 0>>, <<4, 1, 11>>, <<7, 1, 255>>, <<9, 0>>, <<12, 1, 0>>}

Followers == {<<>>, <<9, 1, 50>>, <<5, 2, 0, 1>>, <<60, 1, 200>>, <<10, 1, 3>>}

ShortEntryFrames ==
    { EncodeFrame(1, h \o r) : h \in ShortHeads, r \in Followers }

(* Every change of one byte, header, CRC and end sentinel included. *)
AnyByteChanged(frame) ==
    { Corrupt(frame, i, v) : i \in 0 .. (Len(frame) - 1), v \in CorruptValues }

Prefixes(frame) == { SubSeq(frame, 1, n) : n \in 0 .. Len(frame) }

CandidateFrames ==
    CleanFrames
      \cup {FrameRpm170, FrameFuel85, FrameUnknown}
      \cup {FrameLenZero, FrameVerOnlyLong, FrameTlvOverrun, FrameTlvAtEnd}
      \cup TlvFrames
      \cup UnknownFrames
      \cup CrcFrames
      \cup ShortEntryFrames
      \cup AnyByteChanged(FrameThrottle)
      \cup AnyByteChanged(FrameStatus)
      \cup Prefixes(FrameRpm)
      \cup { f \o t : f \in CleanFrames, t \in {<<0>>, <<END_BYTE>>, <<0, END_BYTE>>} }

(* esp32.rs 101: parse_frame(&frame) on the candidate buffer. *)
CallParseFrame ==
    /\ call_arg # None
    /\ call_ret = None
    /\ call_ret' = Some(parse_frame(call_arg[1], overflow_checks))
    /\ UNCHANGED <<SerialVars, tasks, lock, store, limits, call_arg, BleVars,
                   UiVars>>

InitParseFrame ==
    /\ InitCommon
    /\ overflow_checks \in BOOLEAN
    /\ wire = <<>>
    /\ limits = NoBudget
    /\ call_arg \in { Some(f) : f \in CandidateFrames }
    /\ call_ret = None

NextParseFrame == CallParseFrame

SpecParseFrame == InitParseFrame /\ [][NextParseFrame]_vars

(* parser.rs 34-117: one call of parse_packet, with the offsets it indexed *)
CallParsePacket ==
    /\ call_arg # None
    /\ call_ret = None
    /\ call_ret' = Some([value |-> parse_packet(call_arg[1]),
                         reads |-> parse_packet_reads(call_arg[1])])
    /\ UNCHANGED <<SerialVars, tasks, lock, store, limits, call_arg, BleVars,
                   UiVars, overflow_checks>>

InitParsePacket ==
    /\ InitCommon
    /\ overflow_checks = FALSE
    /\ wire = <<>>
    /\ limits = NoBudget
    /\ call_arg \in { Some(p) : p \in CandidatePayloads }
    /\ call_ret = None

NextParsePacket == CallParsePacket

SpecParsePacket == InitParsePacket /\ [][NextParsePacket]_vars

(* telemetry.rs 27-55: one call of StatusFlags::from_byte on a byte, or of *)
(* to_byte on a value of the struct.                                       *)
Bytes == 0 .. 255

AllStatusFlags ==
    [mil : BOOLEAN, abs_warning : BOOLEAN, airbag_warning : BOOLEAN,
     left_turn : BOOLEAN, right_turn : BOOLEAN, high_beam : BOOLEAN,
     parking_brake : BOOLEAN, reserved : BOOLEAN]

CallFromByte ==
    /\ call_arg # None
    /\ call_ret = None
    /\ call_arg[1].of = "from_byte"
    /\ call_ret' = Some(StatusFlags_from_byte(call_arg[1].byte))
    /\ UNCHANGED <<SerialVars, tasks, lock, store, limits, call_arg, BleVars,
                   UiVars>>

CallToByte ==
    /\ call_arg # None
    /\ call_ret = None
    /\ call_arg[1].of = "to_byte"
    /\ call_ret' = Some(StatusFlags_to_byte(call_arg[1].flags))
    /\ UNCHANGED <<SerialVars, tasks, lock, store, limits, call_arg, BleVars,
                   UiVars>>

InitStatusFlags ==
    /\ InitCommon
    /\ overflow_checks = FALSE
    /\ wire = <<>>
    /\ limits = NoBudget
    /\ \/ call_arg \in { Some([of |-> "from_byte", byte |-> b]) : b \in Bytes }
       \/ call_arg \in { Some([of |-> "to_byte", flags |-> f]) :
                            f \in AllStatusFlags }
    /\ call_ret = None

NextStatusFlags == CallFromByte \/ CallToByte

SpecStatusFlags == InitStatusFlags /\ [][NextStatusFlags]_vars

----------------------------------------------------------------------------
(* Vocabulary of the framing properties *)

(* The whole byte stream of the run: what was read, then what is to come. *)
Stream == buffer \o wire

(* A well-formed frame: start sentinel, LEN consistent with the byte       *)
(* count, correct CRC16 over VER and TLV, end sentinel.                    *)
WellFormed(f) ==
    /\ Len(f) >= 6
    /\ f[1] = START_BYTE
    /\ f[2] = Len(f) - 5
    /\ f[Len(f)] = END_BYTE
    /\ f[Len(f) - 2] * 256 + f[Len(f) - 1] = Crc16(SubSeq(f, 3, Len(f) - 3))

TlvRegion(f) == SubSeq(f, 4, Len(f) - 3)

(* The tags of the TLV entries of a region, walked by declared length. *)
RECURSIVE TagsOf(_, _)
TagsOf(tlv, i) ==
    IF i + 1 > Len(tlv) THEN {}
    ELSE {tlv[i]} \cup TagsOf(tlv, i + 2 + tlv[i + 1])

KnownTags == 1 .. 18

(* The tags whose field is set in an engine sample. *)
SetFields(d) ==
    {t \in KnownTags :
        CASE t = 1  -> d.fuel_level # None
          [] t = 2  -> d.oil_pressure # None
          [] t = 3  -> d.boost_pressure # None
          [] t = 4  -> d.rpm # None
          [] t = 5  -> d.speed # None
          [] t = 6  -> d.status_flags # None
          [] t = 7  -> d.steering_angle # None
          [] t = 8  -> d.brake_pressure # None
          [] t = 9  -> d.throttle_position # None
          [] t = 10 -> d.gear_position # None
          [] t \in 11 .. 14 -> d.tyre_pressures[t - 10] # None
          [] OTHER -> d.tyre_temps[t - 14] # None}

(* The call of parse_frame made when the byte at stream position p was read. *)
CallsAt(p) == {i \in 1 .. Len(calls) : calls[i].at = p}

(* C1: every well-formed frame embedded in the bytes read so far, whatever *)
(* its payload and CRC bytes, was handed to the decoder when its last byte *)
(* arrived and gave a sample whose set fields are exactly the known tags   *)
(* of its TLV region.                                                      *)
C1_EveryWellFormedFrameDecoded ==
    \A s \in 1 .. Len(buffer) : \A e \in s .. Len(buffer) :
        (WellFormed(SubSeq(buffer, s, e)) /\ ~(esp_pc = "panicked" /\ e = Len(buffer)))
            => \E i \in CallsAt(e) :
                  /\ calls[i].frame = SubSeq(buffer, s, e)
                  /\ calls[i].result.kind = "Ok"
                  /\ SetFields(calls[i].result.data)
                        = TagsOf(TlvRegion(SubSeq(buffer, s, e)), 1) \cap KnownTags

CorruptedStreams == Corruptions(FrameThrottle) \cup Corruptions(FrameUnknown)

(* C2: feeding a well-formed frame with one byte of its CRC-covered region *)
(* changed never gives a sample: no decode succeeds, and neither the       *)
(* last-good sample nor the store's engine sample changes.                 *)
C2_CorruptedFrameNeverDecoded ==
    Stream \in CorruptedStreams =>
        /\ \A i \in 1 .. Len(calls) : calls[i].result.kind # "Ok"
        /\ last_values = ESP32Data_default
        /\ store.latest_esp32_data = ESP32Data_default

(* C3: after a 0xAA is read the frame buffer is exactly [0xAA], and every  *)
(* frame handed to the decoder is the run of bytes from the last 0xAA to   *)
(* the byte just read: nothing received before that 0xAA is part of it.    *)
C3_StartByteRestartsFrame ==
    /\ (buffer # <<>> /\ buffer[Len(buffer)] = START_BYTE)
          => frame_buffer = <<START_BYTE>>
    /\ \A i \in 1 .. Len(calls) :
          LET f == calls[i].frame
          IN  /\ f = SubSeq(buffer, calls[i].at - Len(f) + 1, calls[i].at)
              /\ f[1] = START_BYTE
              /\ \A j \in 2 .. Len(f) : f[j] # START_BYTE

(* A frame was open when a 0xAA arrived, and the frame begun by that 0xAA  *)
(* was later decoded.                                                      *)
C3_Witness ==
    /\ Len(calls) = 1
    /\ calls[1].result.kind = "Ok"
    /\ calls[1].at - Len(calls[1].frame) = 4
    /\ buffer[1] = START_BYTE

----------------------------------------------------------------------------
(* Vocabulary of the publication properties *)

OkCalls == {i \in 1 .. Len(calls) : calls[i].result.kind = "Ok"}

HasDecoded == OkCalls # {}

(* The sample of the most recent successful decode. *)
LastDecoded ==
    LET last == CHOOSE i \in OkCalls : \A j \in OkCalls : j <= i
    IN  calls[last].result.data

Finished(t) == t.pc \in {"done", "dropped"}

AllTasksFinished == \A i \in 1 .. Len(tasks) : Finished(tasks[i])

PendingEngineWrites ==
    {i \in 1 .. Len(tasks) : tasks[i].kind = "esp32_write" /\ ~Finished(tasks[i])}

EngineWrites == {i \in 1 .. Len(tasks) : tasks[i].kind = "esp32_write"}

(* C5: a frame was decoded and its write applied, and every other store    *)
(* writer is a republish dispatched after it (the outage): the store still *)
(* holds the decoded sample, not the all-unset one.                        *)
C5_RetainedSampleStays ==
    ( /\ Cardinality(OkCalls) = 1
      /\ \E w \in EngineWrites :
            /\ tasks[w].pc = "done"
            /\ \A i \in 1 .. Len(tasks) : i # w => (i > w /\ IsRetain(tasks[i])) )
        => store.latest_esp32_data = LastDecoded

(* C6: with no device error and no republish, once every dispatched write  *)
(* task has completed the store holds the sample of the most recent        *)
(* decode.                                                                 *)
C6_LatestDecodeWins ==
    (io_errors = 0 /\ Retains(tasks) = 0 /\ HasDecoded /\ AllTasksFinished)
        => store.latest_esp32_data = LastDecoded

(* C9: no open or read failure ends the serial listener. *)
C9_ListenerNeverEnds ==
    esp_pc \notin {"failed", "err_locked", "terminated"}

(* C10: once the listener is reading again after a read failure and no     *)
(* store writer is left to run, the failure is recorded as the engine      *)
(* link's error.                                                           *)
C10_ReadErrorRecorded ==
    (io_errors > 0 /\ esp_pc = "read" /\ AllTasksFinished)
        => store.esp32_error # None

----------------------------------------------------------------------------
(* Vocabulary of the locking properties *)

TaskIds == 1 .. Len(tasks)

InCriticalSection(t) == t.pc \in {"locked", "mid"}

(* Processes that are between an acquire and the drop of their guard. *)
Holders ==
    Cardinality({i \in TaskIds : InCriticalSection(tasks[i])})
        + (IF render_pc.held THEN 1 ELSE 0)
        + (IF cmd_pc = "locked" THEN 1 ELSE 0)
        + (IF esp_pc = "err_locked" THEN 1 ELSE 0)

(* A position update has replaced the sample and not yet cleared the error. *)
MidUpdate == \E i \in TaskIds : tasks[i].pc = "mid"

IsSamplePublication(t) == t.kind \in {"esp32_write", "esp32_retain", "ble_data"}

(* C4: the store lock has at most one holder at any time, and a reader     *)
(* (render section or command handler) that holds it never finds a         *)
(* position update half applied: the new sample in place and the error it  *)
(* clears still set.  Every read under the lock sees whole updates only.   *)
C4_WholeUpdatesOnly ==
    /\ Holders <= 1
    /\ (lock = NoHolder) <=> (Holders = 0)
    /\ (render_pc.held \/ cmd_pc = "locked") => ~MidUpdate

(* A position update is half applied over a pending error while the render *)
(* pass stands before its g-force section.                                 *)
C4_Witness ==
    /\ \E i \in TaskIds :
          /\ tasks[i].pc = "mid"
          /\ store.latest_racebox_data = Some(tasks[i].data)
    /\ store.racebox_error # None
    /\ render_pc = [stage |-> "gforce", held |-> FALSE]

PublicationStep(i) ==
    LET t == tasks[i]
        u == tasks'[i]
        polled == t.pc = "spawned" /\ u.pc # "spawned"
    IN  /\ IsRetain(t) =>
            /\ u.pc # "waiting"
            /\ (polled /\ lock # NoHolder) => (u.pc = "dropped" /\ store' = store)
            /\ t.pc = "dropped" => u.pc = "dropped"
        /\ t.kind \in {"esp32_write", "ble_data"} =>
            /\ u.pc # "dropped"
            /\ (polled /\ lock # NoHolder) => (u.pc = "waiting" /\ store' = store)
            /\ (t.pc = "waiting" /\ u.pc # "waiting") =>
                    (lock = NoHolder /\ u.pc = "locked")
        /\ (t.pc = "locked" /\ u.pc # "locked") =>
            IF t.kind = "ble_data"
               THEN store'.latest_racebox_data = Some(t.data)
               ELSE t.kind \in {"esp32_write", "esp32_retain"} =>
                        store'.latest_esp32_data = t.data

BleReady ==
    /\ ble_pc # "ended"
    /\ ble_pc = "scan_sleep" => scan_count < limits.scans

(* The next byte on the wire closes the open frame (esp32.rs 57). *)
ClosesFrame ==
    /\ frame_buffer # <<>>
    /\ Head(wire) = END_BYTE
    /\ Len(frame_buffer) + 1 >= MIN_FRAME_LEN

(* Each loop has its next step enabled, whoever holds the lock. *)
LoopsCanStep ==
    /\ (esp_pc = "read" /\ wire # <<>> /\ ~ClosesFrame) => ENABLED EspReadByte
    /\ (esp_pc = "read" /\ io_errors < limits.io_errors) => ENABLED EspReadErr
    /\ esp_pc = "sleep" => ENABLED EspSleepDone
    /\ esp_pc = "reopen" => ENABLED EspReopen
    /\ BleReady => ENABLED BleStep
    /\ ENABLED RenderStep
    /\ lock[1] \in {"none", "task", "render", "main_esp32"}

IsPrefix(s, t) == Len(s) <= Len(t) /\ SubSeq(t, 1, Len(s)) = s

(* A step of one of the two link loops, frame-closing bytes included,      *)
(* leaves the lock and the store alone: all it does to the shared state is *)
(* to append freshly spawned tasks.                                        *)
LoopsOnlyDispatch ==
    (\/ esp_pc \in {"open", "read", "sleep", "reopen"}
          /\ <<esp_pc, wire, io_errors>>' # <<esp_pc, wire, io_errors>>
     \/ <<ble_pc, periph, scan_count, notified>>'
            # <<ble_pc, periph, scan_count, notified>>)
    => /\ lock' = lock
       /\ store' = store
       /\ IsPrefix(tasks, tasks')
       /\ \A i \in Len(tasks) + 1 .. Len(tasks') : tasks'[i].pc = "spawned"

----------------------------------------------------------------------------
(* Properties of the frame decoder called on its own *)

DecodeErrors ==
    {"Frame too short", "Frame length mismatch", "CRC mismatch",
     "Missing EOF byte"}

Called == call_arg # None /\ call_ret # None

(* C11: for every candidate buffer parse_frame returns a sample or one of   *)
(* the four decode errors; it never aborts.                                 *)
C11_ParseFrameNeverAborts ==
    Called =>
        \/ call_ret[1].kind = "Ok"
        \/ call_ret[1].kind = "Err" /\ call_ret[1].err \in DecodeErrors

(* The byte count LENGTH implies: header, LENGTH, VER + TLV (LENGTH bytes), *)
(* two CRC bytes and the end sentinel.                                      *)
ImpliedLen(frame) == At(frame, 1) + 5

(* C12: parse_frame accepts a buffer only when its byte count is exactly    *)
(* LENGTH + 5; a longer or a shorter one is rejected.                       *)
C12_AcceptsExactLengthOnly ==
    (Called /\ call_ret[1].kind = "Ok") =>
        Len(call_arg[1]) = ImpliedLen(call_arg[1])

----------------------------------------------------------------------------
(* Properties of the beacon listener *)

(* The listener reports a failure in this step. *)
BleFailureStep == ble_failures' = ble_failures + 1

(* C13: a failure at any stage is followed by the listener scanning again: *)
(* no step that reports a failure ends the listener.                       *)
C13_NoFailureEndsListener ==
    [][BleFailureStep => ble_pc' # "ended"]_vars

(* The stages of the connection sequence of a selected peripheral. *)
SequenceStages == {"connect", "discover", "subscribe", "notifications"}

ErrorTasks(ts) == SelectSeq(ts, LAMBDA t : t.kind = "ble_error")

(* A failure of the connection sequence invokes the error callback once,   *)
(* drops the peripheral without streaming and leaves the listener at      *)
(* `target`.                                                               *)
SequenceFailure(target) ==
    (ble_pc \in SequenceStages /\ BleFailureStep) =>
        /\ Len(tasks') = Len(tasks) + 1
        /\ SubSeq(tasks', 1, Len(tasks)) = tasks
        /\ tasks'[Len(tasks')].kind = "ble_error"
        /\ periph' = Tail(periph)
        /\ connected' = connected
        /\ ble_pc' = target

(* A step of the connection sequence without failure reports nothing. *)
SequenceSuccess ==
    (ble_pc \in SequenceStages /\ ble_pc' # ble_pc /\ ~BleFailureStep) =>
        ErrorTasks(tasks') = ErrorTasks(tasks)

TierOfCycle(n) == IF n <= 10 THEN 1 ELSE IF n <= 20 THEN 3 ELSE 10

(* C15: the delay before the n-th scan cycle, cycles with a failed         *)
(* enumeration counted, is 1 s for n <= 10, 3 s for 11 <= n <= 20 and      *)
(* 10 s beyond; it never decreases, whatever failed in between.            *)
C15_TieredScanDelay ==
    /\ [](scan_count >= 1 => sleep_secs = TierOfCycle(scan_count))
    /\ [][/\ sleep_secs' >= sleep_secs
          /\ scan_count' \in {scan_count, scan_count + 1}
          /\ (ble_pc = "scan_sleep" /\ ble_pc' # ble_pc) =>
                 scan_count' = scan_count + 1]_vars

(* The 21st cycle, after a failed enumeration and a failed connection. *)
C15_Witness ==
    /\ scan_count = 21
    /\ sleep_secs = 10
    /\ \E i \in 1 .. Len(tasks) : tasks[i].data = "PeripheralDiscovery"
    /\ \E i \in 1 .. Len(tasks) : tasks[i].data = "Connection"

(* The samples handed to the data callback, in the order of the calls. *)
DataCalls(ts) ==
    LET sel == SelectSeq(ts, LAMBDA t : t.kind = "ble_data")
    IN  [i \in 1 .. Len(sel) |-> sel[i].data]

(* The payloads among the items of a notification stream, in order. *)
PayloadsOf(items) ==
    LET sel == SelectSeq(items, LAMBDA x : x # None)
    IN  [i \in 1 .. Len(sel) |-> sel[i][1]]

(* The samples of the payloads parse_packet accepts, in arrival order. *)
AcceptedSamples(payloads) ==
    LET sel == SelectSeq(payloads, LAMBDA p : parse_packet(p) # None)
    IN  [i \in 1 .. Len(sel) |-> parse_packet(sel[i])[1]]

(* A notification payload arrives in this step. *)
NotificationStep ==
    /\ Len(inbox') = Len(inbox) + 1
    /\ inbox'[Len(inbox')] # None

(* C16: while streaming, for every notification payload in arrival order   *)
(* the data callback is invoked exactly once if parse_packet accepts the   *)
(* payload and not at all if it rejects it; a rejected payload invokes no  *)
(* error callback, records no position error and does not end the          *)
(* streaming loop.                                                         *)
C16_EveryAcceptedPayloadForwardedOnce ==
    /\ [](DataCalls(tasks) = AcceptedSamples(PayloadsOf(inbox)))
    /\ [][NotificationStep =>
            LET p == inbox'[Len(inbox')][1]
            IN  /\ ble_pc = "streaming"
                /\ inbox' = Append(inbox, Some(p))
                /\ ble_pc' = "streaming"
                /\ store' = store
                /\ ErrorTasks(tasks') = ErrorTasks(tasks)
                /\ IF parse_packet(p) # None
                      THEN tasks' = Append(tasks,
                                           NewTask("ble_data", parse_packet(p)[1]))
                      ELSE tasks' = tasks]_vars

(* A rejected payload, then an accepted one, and the loop still streams. *)
C16_Witness ==
    /\ ble_pc = "streaming"
    /\ Len(inbox) = 2
    /\ inbox[1] # None /\ parse_packet(inbox[1][1]) = None
    /\ inbox[2] # None /\ parse_packet(inbox[2][1]) # None
    /\ Len(DataCalls(tasks)) = 1

(* A notification stream has ended: next() has returned None. *)
StreamTerminated == \E i \in 1 .. Len(inbox) : inbox[i] = None

(* The items received up to the first end of a notification stream. *)
FirstStream(items) ==
    LET ends == {i \in 1 .. Len(items) : items[i] = None}
    IN  IF ends = {} THEN items
        ELSE SubSeq(items, 1, (CHOOSE i \in ends : \A j \in ends : i <= j) - 1)

(* The listener goes through no further scan cycle and the step that ends  *)
(* a stream reports nothing and leaves the store alone.                    *)
NoRescanAfterTermination ==
    /\ StreamTerminated =>
          /\ scan_count' = scan_count
          /\ ble_pc' \notin {"scan_sleep", "peripherals"}
    /\ (~StreamTerminated /\ StreamTerminated') =>
          /\ tasks' = tasks
          /\ store' = store
          /\ ble_failures' = ble_failures

----------------------------------------------------------------------------
(* Properties of parse_packet *)

PREAMBLE == <<181, 98, 255, 1>>

(* C18: parse_packet returns a sample if and only if the payload has at    *)
(* least 80 bytes and begins with B5 62 FF 01; for every other payload,    *)
(* the ones shorter than 80 bytes included, it returns absent, and it      *)
(* never indexes the payload out of bounds.                                *)
C18_AcceptsExactlyDataMessages ==
    Called =>
        LET data == call_arg[1]
        IN  /\ call_ret[1].value # None <=>
                  (Len(data) >= 80 /\ SubSeq(data, 1, 4) = PREAMBLE)
            /\ call_ret[1].reads \subseteq 0 .. (Len(data) - 1)

(* A payload of fewer than 80 bytes with the right preamble was rejected   *)
(* without a read.                                                         *)
C18_Witness ==
    /\ Called
    /\ Len(call_arg[1]) = 79
    /\ SubSeq(call_arg[1], 1, 4) = PREAMBLE
    /\ call_ret[1].value = None
    /\ call_ret[1].reads = {}

RECURSIVE Gcd(_, _)
Gcd(a, b) == IF b = 0 THEN a ELSE Gcd(b, a % b)

Abs(n) == IF n < 0 THEN 0 - n ELSE n

(* The fraction n / d in lowest terms, d > 0. *)
Lowest(n, d) ==
    LET g == Gcd(Abs(n), d)
    IN  IF n = 0 THEN <<0, 1>> ELSE <<n \div g, d \div g>>

(* The value raw * mul / div of a scaled field, in lowest terms. *)
ValueOf(s) ==
    LET g1 == Gcd(s[2], s[3])
        g2 == Gcd(Abs(s[1]), s[3] \div g1)
    IN  IF s[1] = 0 THEN <<0, 1>>
        ELSE <<(s[1] \div g2) * (s[2] \div g1), (s[3] \div g1) \div g2>>

(* C19: for an accepted payload, latitude is the signed 32-bit             *)
(* little-endian integer at bytes 28..31 divided by 10^7 and speed the one *)
(* at bytes 48..51 multiplied by 3.6 and divided by 1000: raw latitude     *)
(* 481234560 gives 48.123456 degrees and raw speed 1000 gives 3.6 km/h.    *)
C19_LatitudeAndSpeedScaling ==
    Called =>
        /\ \A lat \in RawLatitudes, speed \in RawSpeeds :
              call_arg[1] = PayloadGps(RawLongitude, lat, speed) =>
                  /\ call_ret[1].value # None
                  /\ ValueOf(call_ret[1].value[1].latitude) = Lowest(lat, 10000000)
                  /\ ValueOf(call_ret[1].value[1].speed_kph) =
                         Lowest(speed * 36, 10000)
        /\ call_arg[1] = PayloadExample =>
              /\ ValueOf(call_ret[1].value[1].latitude) = Lowest(48123456, 1000000)
              /\ ValueOf(call_ret[1].value[1].speed_kph) = Lowest(36, 10)

(* The payload of the example has been decoded. *)
C19_Witness ==
    /\ Called
    /\ call_arg[1] = PayloadExample
    /\ Len(call_arg[1]) = 80
    /\ call_ret[1].value # None
    /\ call_ret[1].value[1].latitude[1] = 481234560

----------------------------------------------------------------------------
(* Properties of the control socket *)

ValidCommands ==
    { <<"set_mode", "Road">>, <<"set_mode", "Track">>,
      <<"set_scheme", "Light">>, <<"set_scheme", "Dark">> }

ErrReplies == {"ERR invalid mode: ", "ERR invalid scheme: ", "ERR unknown command"}

Selectors(state) == <<state.drive_mode, state.color_scheme>>

(* The selectors the claim gives after one line. *)
SelectorsAfter(sel, line) ==
    IF line \notin ValidCommands THEN sel
    ELSE IF line[1] = "set_mode" THEN <<line[2], sel[2]>>
    ELSE <<sel[1], line[2]>>

RECURSIVE SelectorsAfterAll(_, _)
SelectorsAfterAll(sel, lines) ==
    IF lines = <<>> THEN sel
    ELSE SelectorsAfterAll(SelectorsAfter(sel, Head(lines)), Tail(lines))

(* The handling of a connection ends in this step. *)
ConnectionHandled == Len(responses') = Len(responses) + 1

----------------------------------------------------------------------------
(* Properties of the snapshot *)

(* The successful decode whose write task is task i: the n-th write task   *)
(* was dispatched by the n-th successful decode.                           *)
CallOfWrite(i) ==
    CHOOSE c \in OkCalls :
        Cardinality({j \in OkCalls : j <= c})
            = Cardinality({j \in EngineWrites : j <= i})

(* The write task i replaces the engine sample in this step. *)
WriteApplied(i) == tasks[i].pc = "locked" /\ tasks'[i].pc = "done"

(* C21: the sample written for a decoded well-formed frame is the decoded  *)
(* sample and has set exactly the fields whose tags are in that frame:     *)
(* after F1 then F2, every field with a tag in F1 and not in F2 is unset;  *)
(* nothing is carried over from F1, the last-good sample or the store.     *)
C21_WrittenSampleCarriesNothingOver ==
    [][\A i \in EngineWrites :
          WriteApplied(i) =>
              LET c == CallOfWrite(i)
              IN  /\ store'.latest_esp32_data = calls[c].result.data
                  /\ WellFormed(calls[c].frame) =>
                        SetFields(store'.latest_esp32_data)
                            = TagsOf(TlvRegion(calls[c].frame), 1) \cap KnownTags]_vars

(* Two frames with different tags were decoded and written in order: the   *)
(* store shows the second sample, with the field of the first unset.       *)
C21_Witness ==
    /\ Len(calls) = 2
    /\ OkCalls = {1, 2}
    /\ WellFormed(calls[1].frame) /\ WellFormed(calls[2].frame)
    /\ Len(tasks) = 2
    /\ \A i \in 1 .. 2 : tasks[i].kind = "esp32_write" /\ tasks[i].pc = "done"
    /\ store.latest_esp32_data = calls[2].result.data
    /\ SetFields(calls[1].result.data) \ SetFields(store.latest_esp32_data) # {}
    /\ SetFields(store.latest_esp32_data) # {}

(* The snapshot the claim gives for the start of the program. *)
InitialSnapshot ==
    /\ store.latest_racebox_data = None
    /\ \A f \in DOMAIN store.latest_esp32_data \ {"tyre_pressures", "tyre_temps"} :
          store.latest_esp32_data[f] = None
    /\ \A k \in 1 .. 4 :
          /\ store.latest_esp32_data.tyre_pressures[k] = None
          /\ store.latest_esp32_data.tyre_temps[k] = None
    /\ store.racebox_error = None
    /\ store.esp32_error = None
    /\ store.drive_mode = "Road"
    /\ store.color_scheme = "Light"

PositionWrites == {i \in TaskIds : tasks[i].kind = "ble_data"}

(* The position write of task i has replaced the sample. *)
PositionWritten(i) == tasks[i].pc \in {"mid", "done"}

PositionPresent == store.latest_racebox_data # None

ChangesOnly(fields) == \A f \in DOMAIN store \ fields : store'[f] = store[f]

(* A task of one of the given kinds takes a step. *)
TaskOfKindSteps(kinds) ==
    \E i \in TaskIds : tasks[i].kind \in kinds /\ tasks'[i].pc # tasks[i].pc

SerialLoopSteps ==
    /\ esp_pc \in {"open", "read", "sleep", "reopen"}
    /\ <<esp_pc, buffer, wire, elapsed_ms>>' # <<esp_pc, buffer, wire, elapsed_ms>>

MainSerialErrorSteps == esp_pc \in {"failed", "err_locked"} /\ esp_pc' # esp_pc

BleLoopSteps == <<ble_pc, periph, notified, inbox>>' # <<ble_pc, periph, notified, inbox>>

CommandSteps == <<cmd_pc, responses>>' # <<cmd_pc, responses>>

RenderSteps == <<render_pc, shown>>' # <<render_pc, shown>>

(* C23: each writer changes only its own part of the snapshot: the serial  *)
(* manager's writes only the engine sample, main's serial error path only  *)
(* the engine-link error, the beacon callbacks only the position sample    *)
(* and the position-link error, the command handler only the two           *)
(* selectors; the two listener loops and the renderer change nothing.      *)
C23_EachWriterOwnPart ==
    [][/\ TaskOfKindSteps({"esp32_write", "esp32_retain"}) =>
             ChangesOnly({"latest_esp32_data"})
       /\ MainSerialErrorSteps => ChangesOnly({"esp32_error"})
       /\ TaskOfKindSteps({"ble_data", "ble_error"}) =>
             ChangesOnly({"latest_racebox_data", "racebox_error"})
       /\ CommandSteps => ChangesOnly({"drive_mode", "color_scheme"})
       /\ (SerialLoopSteps \/ BleLoopSteps \/ RenderSteps) => store' = store
       /\ (store' # store) =>
             \/ TaskOfKindSteps({"esp32_write", "esp32_retain", "ble_data",
                                 "ble_error"})
             \/ MainSerialErrorSteps
             \/ CommandSteps]_vars

(* An engine sample was written while the selectors were no longer at      *)
(* their initial values.                                                   *)
C23_Witness ==
    /\ <<store.drive_mode, store.color_scheme>> # <<"Road", "Light">>
    /\ SetFields(store.latest_esp32_data) # {}
    /\ \E r \in 1 .. Len(responses) : responses[r].replies = <<<<"OK">>>>
    /\ render_pc.stage # "selectors"

----------------------------------------------------------------------------
(* The framing of the serial read loop (esp32.rs 46-76) *)

(* A step of the loop that read the byte b from the port. *)
ReadsByte(b) ==
    /\ esp_pc = "read"
    /\ buffer' = Append(buffer, b)

(* A step of the loop in which parse_frame was called and returned. *)
DecoderReturns ==
    /\ Len(calls') = Len(calls) + 1
    /\ calls'[Len(calls')].result.kind \in {"Ok", "Err"}

FramedCall(c) ==
    /\ Len(c.frame) >= MIN_FRAME_LEN
    /\ c.frame[1] = START_BYTE
    /\ c.frame[Len(c.frame)] = END_BYTE
    /\ \A i \in 2 .. Len(c.frame) : c.frame[i] # START_BYTE

OnlyFramedCalls == \A i \in 1 .. Len(calls) : FramedCall(calls[i])

(* After a call the buffer is empty, and a byte other than 0xAA read with  *)
(* an empty buffer is dropped.                                             *)
ClearedAfterCall ==
    /\ DecoderReturns => frame_buffer' = <<>>
    /\ \A b \in (0 .. 255) \ {START_BYTE} :
         (ReadsByte(b) /\ frame_buffer = <<>>)
            => (frame_buffer' = <<>> /\ calls' = calls)

(* An end byte that arrives when the open frame holds fewer than `n` bytes *)
(* is appended to it and no call is made.                                  *)
EndByteAccumulatedBelow(n) ==
    (ReadsByte(END_BYTE) /\ frame_buffer # <<>> /\ Len(frame_buffer) < n)
        => (frame_buffer' = Append(frame_buffer, END_BYTE) /\ calls' = calls)

----------------------------------------------------------------------------
(* The retention republish (esp32.rs 85-97) against recorded time *)

(* A step of the loop that reaches the retention check: the iteration of a *)
(* byte read, or of a read error after the port has been reopened.         *)
IterationEnds ==
    /\ esp_pc \in {"read", "reopen"}
    /\ esp_pc' = "read"
    /\ (esp_pc = "read" => Len(buffer') = Len(buffer) + 1)

RepublishDispatched == Retains(tasks') = Retains(tasks) + 1

Latest(times) == CHOOSE t \in times : \A u \in times : u <= t

Instants(opts) == {o[1] : o \in {x \in opts : x # None}}

(* At the check of the ending iteration, `window` ms or more have passed   *)
(* since the latest of the given events; a decode of this very iteration   *)
(* counts.                                                                 *)
WindowOver(events) ==
    /\ Instants(events) # {}
    /\ clock.now - Latest(Instants(events)) >= VALUE_RETENTION_MS

(* What a dispatch does: one try_lock task carrying connection.last_values *)
(* is spawned and the timer restarts.                                      *)
RepublishEffect ==
    RepublishDispatched =>
        /\ IterationEnds
        /\ tasks'[Len(tasks')] = NewTask("esp32_retain", last_values')
        /\ elapsed_ms' = 0
        /\ clock.republished # None =>
               clock.now - clock.republished[1] >= VALUE_RETENTION_MS
        /\ clock'.decoded # None =>
               clock.now - clock'.decoded[1] >= VALUE_RETENTION_MS

(* A republish that finds the lock held changes nothing and stays dropped. *)
RepublishNotRetried ==
    \A i \in 1 .. Len(tasks) :
        IsRetain(tasks[i]) =>
            /\ (tasks[i].pc = "spawned" /\ tasks'[i].pc # "spawned"
                    /\ lock # NoHolder)
                  => (tasks'[i].pc = "dropped" /\ store' = store /\ lock' = lock)
            /\ tasks[i].pc = "dropped" => tasks'[i] = tasks[i]
            /\ tasks'[i].pc # "waiting"

TimeRecorded == clock.now < limits.clock_ms

----------------------------------------------------------------------------
(* What a closed frame does to the manager (esp32.rs 57-74) *)

LastCall == calls'[Len(calls')]

WritesDispatched == {i \in 1 .. Len(tasks') : i > Len(tasks) /\ ~IsRetain(tasks'[i])}

(* The step decoded a frame: last_values is the decoded sample, the timer  *)
(* is restarted, and the one task spawned is the write of that sample.     *)
AcceptedFrameEffect ==
    (DecoderReturns /\ LastCall.result.kind = "Ok") =>
        /\ last_values' = LastCall.result.data
        /\ elapsed_ms' = 0
        /\ clock'.decoded = Some(clock.now)
        /\ tasks' = Append(tasks, NewTask("esp32_write", LastCall.result.data))
        /\ store' = store
        /\ esp_pc' = "read"

(* The step rejected a frame: nothing of the manager or the store changes, *)
(* no write of a sample is spawned, no error is recorded and the loop      *)
(* reads on.  The retention check that ends the iteration is as for any    *)
(* other byte: it alone may spawn a republish and restart the timer.       *)
RejectedFrameEffect ==
    (DecoderReturns /\ LastCall.result.kind = "Err") =>
        /\ last_values' = last_values
        /\ clock'.decoded = clock.decoded
        /\ store' = store
        /\ lock' = lock
        /\ io_errors' = io_errors
        /\ WritesDispatched = {}
        /\ \/ tasks' = tasks /\ elapsed_ms' = elapsed_ms
           \/ /\ elapsed_ms >= VALUE_RETENTION_MS
              /\ tasks' = Append(tasks, NewTask("esp32_retain", last_values))
        /\ esp_pc' = "read"
        /\ frame_buffer' = <<>>

(* C26: a successful decode sets the last-good sample to the decoded one,  *)
(* restarts the retention timer and dispatches exactly one write of that   *)
(* sample; a rejected frame changes neither the last-good sample, the      *)
(* timer nor the store, dispatches no write, records no error, and the     *)
(* loop reads the next byte.                                               *)
C26_FrameEffect ==
    [][AcceptedFrameEffect /\ RejectedFrameEffect]_vars

(* A frame has been rejected after a decode, the last-good sample is still *)
(* the decoded one, and the loop has read a byte after the rejected frame. *)
C26_Witness ==
    /\ Len(calls) >= 2
    /\ calls[1].result.kind = "Ok"
    /\ calls[Len(calls)].result.kind = "Err"
    /\ last_values = calls[1].result.data
    /\ last_values # ESP32Data_default
    /\ Len(buffer) > calls[Len(calls)].at
    /\ esp_pc = "read"

----------------------------------------------------------------------------
(* The TLV walk of parse_frame (esp32.rs 137-166) against the tag table *)

(* The buffer has exactly LENGTH + 5 bytes, and CRC and end sentinel are   *)
(* correct.                                                                *)
ExactFrame(f) ==
    /\ Len(f) >= 6
    /\ f[2] = Len(f) - 5
    /\ f[Len(f)] = END_BYTE
    /\ f[Len(f) - 2] * 256 + f[Len(f) - 1] = Crc16(SubSeq(f, 3, Len(f) - 3))

(* Where the entries of a TLV region start, walked by declared length. *)
RECURSIVE EntryStarts(_, _)
EntryStarts(tlv, i) ==
    IF i > Len(tlv) THEN {}
    ELSE IF i + 1 > Len(tlv) THEN {i}
    ELSE {i} \cup EntryStarts(tlv, i + 2 + tlv[i + 1])

TagWidth(t) == IF t \in {6, 9, 10} THEN 1 ELSE 2

(* Every entry has a known tag and the width of that tag, and the last one *)
(* ends with the region.                                                   *)
FixedWidthEntries(tlv) ==
    \A i \in EntryStarts(tlv, 1) :
        /\ i + 1 <= Len(tlv)
        /\ tlv[i] \in KnownTags
        /\ tlv[i + 1] = TagWidth(tlv[i])
        /\ i + 1 + tlv[i + 1] <= Len(tlv)

Unsigned(hi, lo) == 256 * hi + lo
Signed(hi, lo) == IF hi >= 128 THEN 256 * hi + lo - 65536 ELSE 256 * hi + lo

FlagsOf(b) ==
    [mil            |-> (b % 2) = 1,
     abs_warning    |-> ((b \div 2) % 2) = 1,
     airbag_warning |-> ((b \div 4) % 2) = 1,
     left_turn      |-> ((b \div 8) % 2) = 1,
     right_turn     |-> ((b \div 16) % 2) = 1,
     high_beam      |-> ((b \div 32) % 2) = 1,
     parking_brake  |-> ((b \div 64) % 2) = 1,
     reserved       |-> ((b \div 128) % 2) = 1]

(* The field of tag t after the walk: unset without an entry of the tag,   *)
(* else the value of its last entry.                                       *)
FieldOfTag(tlv, t) ==
    LET at == {i \in EntryStarts(tlv, 1) : tlv[i] = t}
    IN  IF at = {} THEN None
        ELSE LET i == CHOOSE j \in at : \A k \in at : k <= j
             IN  CASE t \in {9, 10} -> Some(tlv[i + 2])
                   [] t = 6 -> Some(FlagsOf(tlv[i + 2]))
                   [] t = 7 \/ t \in 15 .. 18 -> Some(Signed(tlv[i + 2], tlv[i + 3]))
                   [] OTHER -> Some(Unsigned(tlv[i + 2], tlv[i + 3]))

TagTable(tlv) ==
    [fuel_level        |-> FieldOfTag(tlv, 1),
     oil_pressure      |-> FieldOfTag(tlv, 2),
     boost_pressure    |-> FieldOfTag(tlv, 3),
     rpm               |-> FieldOfTag(tlv, 4),
     speed             |-> FieldOfTag(tlv, 5),
     status_flags      |-> FieldOfTag(tlv, 6),
     steering_angle    |-> FieldOfTag(tlv, 7),
     brake_pressure    |-> FieldOfTag(tlv, 8),
     throttle_position |-> FieldOfTag(tlv, 9),
     gear_position     |-> FieldOfTag(tlv, 10),
     tyre_pressures    |-> [k \in 1 .. 4 |-> FieldOfTag(tlv, 11 + (k - 1))],
     tyre_temps        |-> [k \in 1 .. 4 |-> FieldOfTag(tlv, 15 + (k - 1))]]

DecodesByTagTable(f) ==
    /\ call_ret[1].kind = "Ok"
    /\ call_ret[1].data = TagTable(TlvRegion(f))
    /\ SetFields(call_ret[1].data) = TagsOf(TlvRegion(f), 1)

----------------------------------------------------------------------------
(* Unknown tags in the TLV walk (esp32.rs 139-165) *)

(* Every entry lies within the region. *)
EntriesFit(tlv) ==
    \A i \in EntryStarts(tlv, 1) :
        i + 1 <= Len(tlv) /\ i + 1 + tlv[i + 1] <= Len(tlv)

HasUnknownEntry(tlv) == \E i \in EntryStarts(tlv, 1) : tlv[i] \notin KnownTags

(* The region with the entries of unknown tags taken out, header and value. *)
RECURSIVE WithoutUnknown(_, _)
WithoutUnknown(tlv, i) ==
    IF i > Len(tlv) THEN <<>>
    ELSE LET last == i + 1 + tlv[i + 1]
         IN  (IF tlv[i] \in KnownTags THEN SubSeq(tlv, i, last) ELSE <<>>)
                \o WithoutUnknown(tlv, last + 1)

KnownOnly(f) == EncodeFrame(f[3], WithoutUnknown(TlvRegion(f), 1))

(* C28: a valid frame with entries of unknown tags decodes to the sample   *)
(* of the valid frame built from its entries without the unknown ones: an  *)
(* unknown entry is stepped over by its declared length and sets no field. *)
C28_UnknownEntriesSkipped ==
    (Called /\ ExactFrame(call_arg[1]) /\ Len(call_arg[1]) >= MIN_FRAME_LEN
        /\ EntriesFit(TlvRegion(call_arg[1]))
        /\ HasUnknownEntry(TlvRegion(call_arg[1])))
        => LET f == call_arg[1]
               g == KnownOnly(f)
           IN  /\ call_ret[1].kind = "Ok"
               /\ SetFields(call_ret[1].data)
                     = TagsOf(TlvRegion(f), 1) \cap KnownTags
               /\ IF Len(g) >= MIN_FRAME_LEN
                     THEN call_ret[1] = parse_frame(g, overflow_checks)
                     ELSE call_ret[1].data = ESP32Data_default

(* A frame with an unknown entry, whose value bytes read as an rpm and a   *)
(* throttle entry, between two known entries has been decoded.             *)
C28_Witness ==
    /\ Called
    /\ call_arg[1] = EncodeFrame(1, TlvThrottle \o <<60, 7, 4, 2, 0, 1, 9, 1, 99>>
                                     \o TlvRpm)
    /\ call_ret[1].kind = "Ok"
    /\ call_ret[1].data.rpm = Some(3000)
    /\ call_ret[1].data.throttle_position = Some(50)

----------------------------------------------------------------------------
(* The checksum of parse_frame (esp32.rs 113-133) against CRC-16/XMODEM *)

(* Polynomials over GF(2) as sets of exponents; addition is the symmetric  *)
(* difference.                                                             *)
PolyAdd(p, q) == (p \ q) \cup (q \ p)

PolyShift(p, n) == {e + n : e \in p}

(* x^16 + x^12 + x^5 + 1: the polynomial 0x1021 with its leading term. *)
GeneratorPoly == {16, 12, 5, 0}

(* One step of the long division: the term x^k is cancelled if present. *)
Cancel(p, k) == IF k \in p THEN PolyAdd(p, PolyShift(GeneratorPoly, k - 16)) ELSE p

PolyOfByte(b) == {e \in 0 .. 7 : (b \div (2 ^ e)) % 2 = 1}

(* The remainder of (r * x^8 + b * x^16) by the generator: the message is  *)
(* taken most significant bit first, nothing is reflected.                 *)
RemainderWithByte(r, b) ==
    LET d == PolyAdd(PolyShift(r, 8), PolyShift(PolyOfByte(b), 16))
    IN  Cancel(Cancel(Cancel(Cancel(
        Cancel(Cancel(Cancel(Cancel(d, 23), 22), 21), 20), 19), 18), 17), 16)

RECURSIVE Remainder(_, _, _)
Remainder(r, bytes, i) ==
    IF i > Len(bytes) THEN r
    ELSE LET next == RemainderWithByte(r, bytes[i])
         IN  IF Cardinality(next) <= 16
                THEN Remainder(next, bytes, i + 1)
                ELSE Remainder({}, bytes, i + 1)

Term(p, e, place) == IF e \in p THEN place ELSE 0

PolyValue(p) ==
    (((Term(p, 0, 1) + Term(p, 1, 2)) + (Term(p, 2, 4) + Term(p, 3, 8)))
     + ((Term(p, 4, 16) + Term(p, 5, 32)) + (Term(p, 6, 64) + Term(p, 7, 128))))
    + (((Term(p, 8, 256) + Term(p, 9, 512))
        + (Term(p, 10, 1024) + Term(p, 11, 2048)))
       + ((Term(p, 12, 4096) + Term(p, 13, 8192))
          + (Term(p, 14, 16384) + Term(p, 15, 32768))))

(* CRC-16/XMODEM: initial value 0, no final XOR. *)
ReferenceCrc(bytes) == PolyValue(Remainder({}, bytes, 1))

(* The call got as far as the checksum: the buffer has the 8 bytes and the *)
(* bytes LENGTH asks for, and LENGTH = 0 did not abort it.                 *)
ReachedChecksum(f) ==
    /\ Len(f) >= MIN_FRAME_LEN
    /\ Len(f) >= f[2] + 5
    /\ f[2] = 0 => (~overflow_checks /\ call_ret[1].kind # "Panic")

Checksummed(f) == SubSeq(f, 3, f[2] + 2)

ReceivedCrc(f) == 256 * f[f[2] + 3] + f[f[2] + 4]

(* C29: the checksum over frame[2 .. 2+LENGTH] is the reference CRC16      *)
(* (polynomial 0x1021, initial value 0, most significant bit first, no     *)
(* reflection, no final XOR); the running value after every byte fits 16   *)
(* bits; and the frame passes the check exactly when the reference equals  *)
(* the two bytes after the TLV region read high byte first.                *)
C29_ChecksumIsCrc16Xmodem ==
    (Called /\ ReachedChecksum(call_arg[1])) =>
        LET f == call_arg[1]
        IN  /\ Crc16(Checksummed(f)) = ReferenceCrc(Checksummed(f))
            /\ \A n \in 0 .. f[2] :
                   Crc16(SubSeq(f, 3, 2 + n)) \in 0 .. 65535
            /\ call_ret[1] = Err("CRC mismatch")
                   <=> ReferenceCrc(Checksummed(f)) # ReceivedCrc(f)

(* The check string with its published CRC 0x31C3 has passed the check,    *)
(* as the reference says.                                                  *)
C29_Witness ==
    /\ Called
    /\ call_arg[1] = FrameCheckString
    /\ ReferenceCrc(Checksummed(call_arg[1])) = 12739
    /\ call_ret[1].kind = "Ok"

----------------------------------------------------------------------------
(* StatusFlags::from_byte and to_byte (telemetry.rs 27-55) *)

(* C30: from_byte sets flag i (mil, abs_warning, airbag_warning,           *)
(* left_turn, right_turn, high_beam, parking_brake, reserved for           *)
(* i = 0..7) exactly when bit i of the byte is set, and to_byte is its     *)
(* inverse on all 256 bytes and all 256 flag combinations.                 *)
C30_FlagsAreTheBitsOfTheByte ==
    Called =>
        IF call_arg[1].of = "from_byte"
            THEN /\ call_ret[1] = FlagsOf(call_arg[1].byte)
                 /\ StatusFlags_to_byte(call_ret[1]) = call_arg[1].byte
            ELSE /\ call_ret[1] \in Bytes
                 /\ StatusFlags_from_byte(call_ret[1]) = call_arg[1].flags
                 /\ FlagsOf(call_ret[1]) = call_arg[1].flags

(* from_byte(0x48) has returned left_turn and parking_brake only. *)
C30_Witness ==
    /\ Called
    /\ call_arg[1].of = "from_byte"
    /\ call_arg[1].byte = 72
    /\ call_ret[1].left_turn /\ call_ret[1].parking_brake
    /\ ~call_ret[1].right_turn /\ ~call_ret[1].mil
    /\ StatusFlags_to_byte(call_ret[1]) = 72

----------------------------------------------------------------------------
(* parse_packet as a function of the decoded offsets *)

(* The offsets the claim names: the preamble and the field offsets. *)
DecodedOffsets ==
    (0 .. 3) \cup (6 .. 17) \cup {20, 21} \cup (23 .. 65) \cup (68 .. 79)

(* Two payloads of at least 80 bytes with equal bytes at every decoded     *)
(* offset.                                                                 *)
AgreeOnDecoded(p, q) ==
    /\ Len(p) >= PACKET_MIN_LEN
    /\ Len(q) >= PACKET_MIN_LEN
    /\ \A i \in DecodedOffsets : p[i + 1] = q[i + 1]

(* The offsets at which two payloads differ, a differing length counted as *)
(* a difference from the shorter length on.                                *)
DifferAt(p, q) ==
    { i \in 0 .. (Len(p) + Len(q) - Min(Len(p), Len(q)) - 1) :
          \/ i >= Len(p) \/ i >= Len(q) \/ p[i + 1] # q[i + 1] }

(* C31: two accepted payloads that agree on bytes 0..3, 6..17, 20, 21,     *)
(* 23..65 and 68..79 decode to equal samples, whatever their bytes 4, 5,   *)
(* 18, 19, 22, 66, 67 and every byte from offset 80 on: the accepted call  *)
(* returned what the call on any other payload agreeing with it returns,   *)
(* and it indexed decoded offsets only.                                    *)
C31_DecodedOffsetsDetermineSample ==
    (Called /\ call_ret[1].value # None) =>
        /\ call_ret[1].reads = DecodedOffsets
        /\ \A q \in CandidatePayloads :
              (parse_packet(q) # None /\ AgreeOnDecoded(call_arg[1], q)) =>
                  parse_packet(q) = call_ret[1].value

(* An accepted payload has been decoded that differs from the example at   *)
(* offsets 4 and 22 and by a trailing checksum only, and from another      *)
(* candidate at every skipped offset.                                      *)
C31_Witness ==
    /\ Called
    /\ call_ret[1].value # None
    /\ call_arg[1] # PayloadExample
    /\ AgreeOnDecoded(call_arg[1], PayloadExample)
    /\ DifferAt(call_arg[1], PayloadExample) = {4, 22, 80, 81}
    /\ \E q \in CandidatePayloads :
          /\ AgreeOnDecoded(call_arg[1], q)
          /\ SkippedOffsets \subseteq DifferAt(call_arg[1], q)
    /\ call_ret[1].value = parse_packet(PayloadExample)

----------------------------------------------------------------------------
(* Entries declared shorter than the width of their tag (esp32.rs 139-165) *)

(* The first entry of the frame has a known tag, a declared length below   *)
(* the width of the tag, and its declared value bytes lie in the region.   *)
FirstEntryShort(f) ==
    LET tlv == TlvRegion(f)
    IN  /\ Len(f) >= MIN_FRAME_LEN
        /\ Len(tlv) >= 2
        /\ tlv[1] \in KnownTags
        /\ tlv[2] < TagWidth(tlv[1])
        /\ 2 + tlv[2] <= Len(tlv)

(* Tag, declared length and declared value bytes of the first entry. *)
DeclaredEntry(f) == SubSeq(TlvRegion(f), 1, 2 + TlvRegion(f)[2])

(* No later entry of the walk has the tag of the first one. *)
FirstTagOnce(f) ==
    LET tlv == TlvRegion(f)
    IN  \A i \in EntryStarts(tlv, 1) : i # 1 => tlv[i] # tlv[1]

FieldAt(data, t) ==
    CASE t = 1  -> data.fuel_level
      [] t = 2  -> data.oil_pressure
      [] t = 3  -> data.boost_pressure
      [] t = 4  -> data.rpm
      [] t = 5  -> data.speed
      [] t = 6  -> data.status_flags
      [] t = 7  -> data.steering_angle
      [] t = 8  -> data.brake_pressure
      [] t = 9  -> data.throttle_position
      [] t = 10 -> data.gear_position
      [] t \in 11 .. 14 -> data.tyre_pressures[t - 11 + 1]
      [] t \in 15 .. 18 -> data.tyre_temps[t - 15 + 1]

(* C32: the value stored for a known tag is taken only from the bytes of   *)
(* the entry's declared value region: two accepted frames that begin with  *)
(* the same entry of a known tag, declared shorter than the width of the   *)
(* tag, and have no other entry of that tag, give the field of the tag the *)
(* same value whatever follows the entry, another entry or the CRC.        *)
C32_ValueFromDeclaredRegionOnly ==
    (Called /\ FirstEntryShort(call_arg[1]) /\ call_ret[1].kind = "Ok"
        /\ ExactFrame(call_arg[1]) /\ FirstTagOnce(call_arg[1])) =>
        \A g \in ShortEntryFrames :
            (/\ FirstEntryShort(g)
             /\ DeclaredEntry(g) = DeclaredEntry(call_arg[1])
             /\ FirstTagOnce(g)
             /\ parse_frame(g, overflow_checks).kind = "Ok") =>
                FieldAt(parse_frame(g, overflow_checks).data, g[4])
                    = FieldAt(call_ret[1].data, call_arg[1][4])

----------------------------------------------------------------------------
(* The size of the buffers of the read loop (esp32.rs 39-55, 73) *)

(* C33: the raw byte buffer and the frame buffer never hold more bytes     *)
(* than the largest valid frame, 260 bytes, however many bytes have been   *)
(* received and also when no 0xAA or 0x55 arrives.                         *)
C33_BuffersBounded ==
    /\ Len(buffer) <= LargestFrameLen
    /\ Len(frame_buffer) <= LargestFrameLen

----------------------------------------------------------------------------
(* The frame buffer across a reopen of the device (esp32.rs 40-55, 77-82) *)

(* The read failed, the task slept and the device has been opened again. *)
DeviceReopened == esp_pc = "reopen" /\ esp_pc' = "read"

(* C34: a frame handed to the decoder consists only of bytes read from one *)
(* device session: when the device is reopened after a failed read, the    *)
(* partially accumulated frame has been discarded, so that no byte read    *)
(* after the reopen is appended to bytes read before it.                   *)
C34_FrameOfOneSession ==
    [][DeviceReopened => frame_buffer' = <<>>]_vars

----------------------------------------------------------------------------
(* The peripherals streamed over the lifetime of the manager               *)
(* (ble.rs 108-111, 136-146, 199-219)                                      *)

(* The step connects to the selected peripheral, subscribes to it, or      *)
(* starts to stream its notifications.                                     *)
ConnectsOrSubscribes ==
    /\ ble_pc' # ble_pc
    /\ ble_pc' \in {"discover", "subscribe", "notifications", "streaming"}

(* C35: at most one peripheral is ever subscribed and streamed: once the   *)
(* manager has entered Streaming for one peripheral it never connects to,  *)
(* nor subscribes to, another one, also after that notification stream    *)
(* has terminated and other peripherals with the expected name prefix were *)
(* visible in the same scan cycle.                                         *)
C35_AtMostOnePeripheralStreamed ==
    [][connected => ~ConnectsOrSubscribes]_vars

----------------------------------------------------------------------------
(* The engine-link error in the store                                      *)
(* (main.rs 56-69, esp32.rs 34-37, 77-82, telemetry.rs 117-127)            *)

(* start_listener has returned the error of a failed open and main's task  *)
(* has recorded it.                                                        *)
ListenerTerminated == esp_pc = "terminated"

(* The read loop is running: reading, asleep after a failed read, or about *)
(* to reopen the device.                                                   *)
ReadLoopRunning == esp_pc \in {"read", "sleep", "reopen"}

(* C36: the engine-link error in the store is present only in states where *)
(* the serial listener has terminated because its device open failed,      *)
(* initially or on a reopen; once present it is never cleared or changed;  *)
(* while the serial read loop is running it is absent.                     *)
C36_EngineLinkErrorOnlyAfterTermination ==
    /\ [](store.esp32_error # None => ListenerTerminated)
    /\ [](ReadLoopRunning => store.esp32_error = None)
    /\ [][store.esp32_error # None => store'.esp32_error = store.esp32_error]_vars

(* The open failed on a reopen after a read failure, the error is in the   *)
(* store, and a sample decoded before the failure has been written.        *)
C36_Witness ==
    /\ ListenerTerminated
    /\ store.esp32_error # None
    /\ io_errors = 2
    /\ calls # <<>>
    /\ \E i \in 1 .. Len(tasks) : tasks[i].kind = "esp32_write" /\ tasks[i].pc = "done"

----------------------------------------------------------------------------
(* Progress of the users of the store lock                                 *)
(* (esp32.rs 67-71, main.rs 35-50, 92-118, render.rs 98-216)               *)

TaskWaits(i) == i \in DOMAIN tasks /\ tasks[i].pc = "waiting"

TaskHasWritten(i) == i \in DOMAIN tasks /\ tasks[i].pc = "done"

(* C37: under fair scheduling every task that waits for the store lock     *)
(* (the write of a decoded engine sample, the writes of the BLE data and   *)
(* error callbacks, main's error path, the command handler) eventually     *)
(* acquires it, applies its update and releases it, and no holder keeps    *)
(* the lock forever.                                                       *)
C37_WaitersAcquireAndRelease ==
    /\ \A i \in FairTaskIds : TaskWaits(i) ~> TaskHasWritten(i)
    /\ (cmd_pc = "lock") ~> (cmd_pc = "idle")
    /\ (esp_pc = "failed") ~> (esp_pc = "terminated")
    /\ (lock # NoHolder) ~> (lock = NoHolder)

----------------------------------------------------------------------------
(* A render pass against the snapshot                                      *)
(* (render.rs 101-111, 157-216, g_force_meter.rs 44-53)                    *)

RenderStages == {"selectors", "gforce", "boost_gauge", "rpm", "boost_text"}

(* Every section of the pass has read its value. *)
AllShown == \A stage \in RenderStages : shown[stage] # None

(* The boost of the gauge and the boost of the text line are the same. *)
BoostFromOneSnapshot ==
    (shown.boost_gauge # None /\ shown.boost_text # None) =>
        shown.boost_text[1] =
            (IF shown.boost_gauge[1] = None
                THEN <<"No boost data available">>
                ELSE <<"Boost: ", shown.boost_gauge[1][1], " mbar">>)

(* render_ui returns: the pass is over. *)
PassEnds ==
    /\ render_pc' # render_pc
    /\ render_pc' = RenderStart

(* C38: a render pass is all-or-nothing with respect to the store: either  *)
(* its first lock attempt fails and nothing is drawn, or every value it    *)
(* displays (selectors, g-force, boost for the gauge, rpm, boost for the   *)
(* text line) has been read, from one and the same snapshot, and the pass  *)
(* runs to its final flush.                                                *)
C38_RenderPassAllOrNothing ==
    /\ [](shown.flushed => (AllShown /\ BoostFromOneSnapshot))
    /\ [][PassEnds => (shown' = EmptyShown \/ shown'.flushed)]_vars

====
